---- MODULE Spec2Model ----
(***************************************************************************)
(* Lifecycle manager of the ESP32 modular firmware: the module collection, *)
(* the per-module lifecycle state, the per-module RTOS task and queue, and *)
(* the registry of task and queue handles.                                 *)
(***************************************************************************)
EXTENDS Integers, Sequences, FiniteSets, TLC

\* ------------------------------------------------------------------ bounds
\* number of module objects the program may construct (new CONTROL_X())
MaxObjects == 2
\* number of module classes, in the order of ClassNames, that may be constructed
NumClasses == 2
\* number of CLI/HTTP commands the environment sends
MaxCommands == 1
\* number of configuration documents the environment applies
MaxConfigs == 1

\* ------------------------------------------------------- program constants
MODULE_DISABLED == 0
MODULE_ENABLED == 1
MODULE_ERROR == 2
MODULE_TESTING == 3

CUSTOM_WIFI_OFF == 0
CUSTOM_WIFI_AP == 1
CUSTOM_WIFI_CLIENT == 2
CUSTOM_WIFI_APSTA == 3

FS == "CONTROL_FS"
WIFI == "CONTROL_WIFI"
WEB == "CONTROL_WEB"
LCD == "CONTROL_LCD"
SERIAL == "CONTROL_SERIAL"
RADAR == "CONTROL_RADAR"

ClassNames == <<WIFI, WEB, FS, LCD, SERIAL, RADAR>>
Classes == {ClassNames[i] : i \in 1..NumClasses}

ObjIds == 1..MaxObjects
\* the null pointer, for Module*, TaskBase*, TaskHandle_t and QueueHandle_t
nullptr == 0

\* priority set by each module's constructor
CtorPriority(c) ==
    CASE c = FS -> 100
      [] c = WIFI -> 85
      [] c = LCD -> 90
      [] c = SERIAL -> 80
      [] c = WEB -> 70
      [] OTHER -> 50

\* useQueue after construction: Module::Module sets false, four modules call
\* setUseQueue(true) in their constructors
CtorUseQueue(c) == c \in {LCD, WEB, RADAR, SERIAL}

\* Module::Module followed by the derived constructor
NewModule(c) ==
    [cls |-> c, alive |-> TRUE, state |-> MODULE_DISABLED,
     priority |-> CtorPriority(c), autoStart |-> TRUE, critical |-> FALSE,
     useTask |-> TRUE, useQueue |-> CtorUseQueue(c),
     initialized |-> FALSE, serverRunning |-> FALSE, isConnected |-> FALSE,
     mode |-> CUSTOM_WIFI_CLIENT, taskBase |-> FALSE, queueBase |-> FALSE]

\* an object id that no constructor has produced yet
NoModule ==
    [cls |-> "none", alive |-> FALSE, state |-> MODULE_DISABLED,
     priority |-> 0, autoStart |-> FALSE, critical |-> FALSE,
     useTask |-> FALSE, useQueue |-> FALSE,
     initialized |-> FALSE, serverRunning |-> FALSE, isConnected |-> FALSE,
     mode |-> CUSTOM_WIFI_CLIENT, taskBase |-> FALSE, queueBase |-> FALSE]

\* ---------------------------------------------------- module operations
\* Each returns [m |-> the module after the call, ret |-> the returned flag].
\* hw is the outcome of the peripheral or allocation the call depends on:
\* "ok", "fail" (SPIFFS mount, new TFT_eSPI, new AsyncWebServer), "late_fail"
\* (SPIFFS mounted, then the directories or the configuration engine failed),
\* and for the WiFi radio "ap_fail" (softAP refused) and "sta_fail" (no
\* connection).

\* the classes whose init() has a failing branch
InitCanFail(c) == c \in {FS, LCD, WEB}

\* the outcomes the hardware can give init() of a module of class c
InitOutcomes(c) ==
    CASE c = FS -> {"ok", "fail", "late_fail"}
      [] InitCanFail(c) -> {"ok", "fail"}
      [] OTHER -> {"ok"}

\* the outcomes the hardware can give start() of a module of class c, which
\* calls init() on a module not yet initialised
Outcomes(c) ==
    IF c = WIFI THEN {"ok", "ap_fail", "sta_fail"} ELSE InitOutcomes(c)

\* CONTROL_X::init()
init(m, hw) ==
    IF InitCanFail(m.cls) /\ hw \in {"fail", "late_fail"}
    THEN [m |-> [m EXCEPT !.state = MODULE_ERROR,
                          !.initialized = CASE m.cls = WEB -> FALSE
                                            [] hw = "late_fail" -> TRUE
                                            [] OTHER -> @],
          ret |-> FALSE]
    ELSE [m |-> [m EXCEPT !.initialized = TRUE, !.state = MODULE_ENABLED],
          ret |-> TRUE]

\* CONTROL_WIFI::startAP()
startAP(m, hw) ==
    IF hw # "ap_fail"
    THEN [m |-> [m EXCEPT !.isConnected = TRUE], ret |-> TRUE]
    ELSE [m |-> m, ret |-> FALSE]

\* CONTROL_WIFI::startClient(), which returns connectToNetwork()
startClient(m, hw) ==
    IF hw # "sta_fail"
    THEN [m |-> [m EXCEPT !.isConnected = TRUE], ret |-> TRUE]
    ELSE [m |-> [m EXCEPT !.isConnected = FALSE], ret |-> FALSE]

\* CONTROL_WIFI::start() from its switch on the mode, m1 being initialised
wifiStartMode(m1, hw) ==
    CASE m1.mode = CUSTOM_WIFI_AP -> startAP(m1, hw)
      [] m1.mode = CUSTOM_WIFI_CLIENT -> startClient(m1, hw)
      [] m1.mode = CUSTOM_WIFI_APSTA ->
            IF startAP(m1, hw).ret
            THEN startClient(startAP(m1, hw).m, hw)
            ELSE startAP(m1, hw)
      [] OTHER -> [m |-> m1, ret |-> FALSE]

\* the tail of CONTROL_WIFI::start(): the default branch of the switch has
\* returned false already, the others set the state from the result r
wifiStartResult(mode, r) ==
    IF mode \notin {CUSTOM_WIFI_AP, CUSTOM_WIFI_CLIENT, CUSTOM_WIFI_APSTA}
    THEN r
    ELSE [m |-> [r.m EXCEPT !.state = IF r.ret THEN MODULE_ENABLED
                                      ELSE MODULE_ERROR],
          ret |-> r.ret]

\* CONTROL_WIFI::start()
wifiStart(m, hw) ==
    wifiStartResult(m.mode,
        wifiStartMode(IF ~m.initialized THEN init(m, hw).m ELSE m, hw))

\* CONTROL_WEB::start()
webStart(m, hw) ==
    LET r == IF ~m.initialized THEN init(m, hw) ELSE [m |-> m, ret |-> TRUE]
    IN  IF ~r.ret
        THEN r
        ELSE [m |-> [r.m EXCEPT !.serverRunning = TRUE, !.state = MODULE_ENABLED],
              ret |-> TRUE]

\* CONTROL_X::start()
start(m, hw) ==
    CASE m.cls = WIFI -> wifiStart(m, hw)
      [] m.cls = WEB -> webStart(m, hw)
      [] OTHER -> IF ~m.initialized
                  THEN init(m, hw)
                  ELSE [m |-> [m EXCEPT !.state = MODULE_ENABLED], ret |-> TRUE]

\* a stop() that leaves the module in MODULE_ENABLED
stopEnabled(m) ==
    [m |-> [m EXCEPT !.state = MODULE_ENABLED,
                     !.serverRunning = FALSE,
                     !.isConnected = FALSE],
     ret |-> TRUE]

\* CONTROL_X::stop()
stop(m) ==
    LET m1 == CASE m.cls \in {FS, SERIAL} -> [m EXCEPT !.initialized = FALSE]
                [] m.cls = WIFI -> [m EXCEPT !.initialized = FALSE,
                                             !.isConnected = FALSE]
                [] m.cls = WEB -> [m EXCEPT !.serverRunning = FALSE]
                [] OTHER -> m
    IN  [m |-> [m1 EXCEPT !.state = MODULE_DISABLED], ret |-> TRUE]

\* CONTROL_X::update(); net is what the radio reports when CONTROL_WIFI polls
\* it: "same" (no poll, or no change), "up", "down"
update(m, net) ==
    IF m.cls = WIFI /\ m.state = MODULE_ENABLED
       /\ m.mode \in {CUSTOM_WIFI_CLIENT, CUSTOM_WIFI_APSTA} /\ net # "same"
    THEN [m EXCEPT !.isConnected = (net = "up")]
    ELSE m

\* ------------------------------------------------------------ configuration
\* the priorities a configuration document may carry
ConfigPriorities == {70, 90}
\* the WiFi modes a configuration document may carry
ConfigModes == {CUSTOM_WIFI_OFF, CUSTOM_WIFI_CLIENT}

\* a module-config object: has is the set of keys it contains
NoKeys ==
    [has |-> {}, priority |-> 0, autoStart |-> FALSE, state |-> "",
     critical |-> FALSE, taskEnabled |-> FALSE, queueEnabled |-> FALSE,
     mode |-> CUSTOM_WIFI_OFF]

\* the module-config objects with one of the keys that loadConfig reads, and
\* those that make a module critical and set its priority
ConfigEntries ==
    {[NoKeys EXCEPT !.has = {"priority"}, !.priority = p] : p \in ConfigPriorities}
    \cup {[NoKeys EXCEPT !.has = {"autoStart"}, !.autoStart = b] : b \in BOOLEAN}
    \cup {[NoKeys EXCEPT !.has = {"state"}, !.state = t] :
             t \in {"enabled", "disabled", "error"}}
    \cup {[NoKeys EXCEPT !.has = {"critical"}, !.critical = b] : b \in BOOLEAN}
    \cup {[NoKeys EXCEPT !.has = {"task.enabled"}, !.taskEnabled = b] : b \in BOOLEAN}
    \cup {[NoKeys EXCEPT !.has = {"queue.enabled"}, !.queueEnabled = b] : b \in BOOLEAN}
    \cup {[NoKeys EXCEPT !.has = {"mode"}, !.mode = w] : w \in ConfigModes}
    \cup {[NoKeys EXCEPT !.has = {"priority", "critical"}, !.priority = p,
                         !.critical = TRUE] : p \in ConfigPriorities}

\* a document with one module-config object, either at the top level
\* (doc[name]) or under doc["modules"][name]; the place matters to the "mode"
\* key only, the other keys are carried at the top level
ConfigDocs(entries) ==
    {d \in [place : {"top", "modules"}, name : Classes, entry : entries] :
        d.place = "modules" => "mode" \in d.entry.has}

\* a loadConfig that also maps the state string "error" to MODULE_ERROR
loadConfigError(m, doc) ==
    IF doc.name = m.cls /\ "state" \in doc.entry.has /\ doc.entry.state = "error"
    THEN [m EXCEPT !.state = MODULE_ERROR]
    ELSE m

\* Module::loadConfig
loadConfig(m, doc) ==
    IF doc.name # m.cls
    THEN m
    ELSE LET e == doc.entry
             k(key) == key \in e.has
         IN [m EXCEPT
               !.priority = IF k("priority") THEN e.priority ELSE @,
               !.autoStart = IF k("autoStart") THEN e.autoStart ELSE @,
               !.state = CASE k("state") /\ e.state = "enabled" -> MODULE_ENABLED
                           [] k("state") /\ e.state = "disabled" -> MODULE_DISABLED
                           [] OTHER -> @,
               !.critical = IF k("critical") THEN e.critical ELSE @,
               !.useTask = IF k("task.enabled") THEN e.taskEnabled ELSE @,
               !.useQueue = IF k("queue.enabled") THEN e.queueEnabled ELSE @]

\* CONTROL_WIFI::loadConfig, which reads "mode" from the top-level object only;
\* CONTROL_LCD::loadConfig adds display settings to Module::loadConfig, and
\* CONTROL_RADAR::loadConfig reads sensor settings only
moduleLoadConfig(m, doc) ==
    LET m1 == IF m.cls = RADAR THEN m ELSE loadConfig(m, doc)
    IN  IF m.cls = WIFI /\ doc.name = WIFI /\ doc.place = "top"
           /\ "mode" \in doc.entry.has
        THEN [m1 EXCEPT !.mode = doc.entry.mode]
        ELSE m1

\* ------------------------------------------------------ configuration engine
\* number of backup files the backup directory may hold
MaxBackups == 2
\* the width of millis(): the counter runs over 0..MaxMillis and wraps
MaxMillis == 1

CONFIG_VERSION_CURRENT == "2.0.0"
CONFIG_VERSION_MIN_SUPPORTED == "1.0.0"

CONFIG_VALID == "CONFIG_VALID"
CONFIG_INVALID_VERSION == "CONFIG_INVALID_VERSION"
CONFIG_INVALID_SCHEMA == "CONFIG_INVALID_SCHEMA"
CONFIG_MISSING_REQUIRED == "CONFIG_MISSING_REQUIRED"
CONFIG_INVALID_VALUE == "CONFIG_INVALID_VALUE"

\* JSON values: a tag and a payload; an object's payload maps its keys to values
JsonString(s) == [t |-> "string", v |-> s]
JsonInt(n) == [t |-> "int", v |-> n]
JsonBool(b) == [t |-> "bool", v |-> b]
JsonObject(f) == [t |-> "object", v |-> f]
\* the null variant, which operator[] returns for a key that is not there
JsonNull == [t |-> "null", v |-> 0]
\* a document after clear(), and a freshly allocated one
EmptyDoc == JsonNull

isNull(x) == x.t = "null"
isObject(x) == x.t = "object"
isString(x) == x.t = "string"
isInt(x) == x.t = "int"
isBool(x) == x.t = "bool"

containsKey(x, k) == isObject(x) /\ k \in DOMAIN x.v
\* operator[] for reading
Member(x, k) == IF containsKey(x, k) THEN x.v[k] ELSE JsonNull
\* operator[] = value for writing: a null document becomes an object first
Put(x, k, val) ==
    LET f == IF isObject(x) THEN x.v ELSE <<>>
    IN  JsonObject([kk \in (DOMAIN f) \cup {k} |-> IF kk = k THEN val ELSE f[kk]])

\* ConfigManager::getNestedValueConst; a path is the vector splitPath makes of
\* the dotted string
RECURSIVE getNestedValueConst(_, _)
getNestedValueConst(doc, path) ==
    IF path = <<>> THEN doc
    ELSE IF containsKey(doc, Head(path))
    THEN getNestedValueConst(doc.v[Head(path)], Tail(path))
    ELSE JsonNull

\* ConfigManager::setNestedValue: every part but the last must lead through an
\* object; a part that is missing is assigned JsonObject(), a null reference,
\* which leaves a null member behind, and the walk stops at it
RECURSIVE setNestedValue(_, _, _)
setNestedValue(doc, path, value) ==
    IF path = <<>> \/ ~isObject(doc) THEN [ret |-> FALSE, doc |-> doc]
    ELSE IF Len(path) = 1 THEN [ret |-> TRUE, doc |-> Put(doc, Head(path), value)]
    ELSE LET d1 == IF containsKey(doc, Head(path)) THEN doc
                   ELSE Put(doc, Head(path), JsonNull)
             r == setNestedValue(d1.v[Head(path)], Tail(path), value)
         IN  [ret |-> r.ret, doc |-> Put(d1, Head(path), r.doc)]

\* the walk of ConfigManager::getConfigValue: the value at the path, and
\* whether every part was a key of an object
RECURSIVE walk(_, _)
walk(doc, path) ==
    IF path = <<>> THEN [found |-> TRUE, value |-> doc]
    ELSE IF containsKey(doc, Head(path)) THEN walk(doc.v[Head(path)], Tail(path))
    ELSE [found |-> FALSE, value |-> JsonNull]

\* ConfigManager::getConfigValue: the flag and the value handed back
getConfigValue(doc, path) ==
    LET w == walk(doc, path)
    IN  IF path = <<>> \/ ~w.found THEN [ret |-> FALSE, value |-> JsonNull]
        ELSE [ret |-> ~isNull(w.value), value |-> w.value]

\* the characters of the version strings, as their ASCII codes
chars(s) ==
    CASE s = "0.9.0" -> <<48, 46, 57, 46, 48>>
      [] s = "1.0.0" -> <<49, 46, 48, 46, 48>>
      [] s = "1.1.0" -> <<49, 46, 49, 46, 48>>
      [] s = "1.2.0" -> <<49, 46, 50, 46, 48>>
      [] s = "1.5.0" -> <<49, 46, 53, 46, 48>>
      [] s = "10.0.0" -> <<49, 48, 46, 48, 46, 48>>
      [] s = "2.0.0" -> <<50, 46, 48, 46, 48>>
      [] s = "9.9.9" -> <<57, 46, 57, 46, 57>>
      [] s = "5" -> <<53>>
      [] OTHER -> <<105, 110, 118, 97, 108, 105, 100>>

\* String::operator<= : strcmp on the characters
RECURSIVE strLE(_, _)
strLE(a, b) ==
    IF a = <<>> THEN TRUE
    ELSE IF b = <<>> THEN FALSE
    ELSE IF Head(a) # Head(b) THEN Head(a) < Head(b)
    ELSE strLE(Tail(a), Tail(b))

\* JsonVariant::as<String>(): a string as it is, a number by its digits
asString(x) ==
    IF isString(x) THEN x.v
    ELSE IF x = JsonInt(5) THEN "5"
    ELSE "invalid"

\* ConfigManager::getConfigVersion
getConfigVersion(doc) ==
    IF ~containsKey(doc, "version") THEN "1.0.0" ELSE asString(doc.v["version"])

\* ConfigManager::setConfigVersion
setConfigVersion(doc, version) == Put(doc, "version", JsonString(version))

\* ConfigManager::isVersionCompatible
isVersionCompatible(version) ==
    /\ strLE(chars(CONFIG_VERSION_MIN_SUPPORTED), chars(version))
    /\ strLE(chars(version), chars(CONFIG_VERSION_CURRENT))

\* the six modules the default rules name
RuleModules == <<FS, WIFI, LCD, SERIAL, WEB, RADAR>>
validStates == {"enabled", "disabled", "error"}

\* ConfigManager::addDefaultValidationRules: the rule table, in order
validationRules ==
    <<[path |-> <<"version">>, type |-> "string", required |-> TRUE, enumValues |-> {}]>>
    \o [i \in 1..6 |-> [path |-> <<"modules", RuleModules[i], "priority">>,
                        type |-> "int", required |-> TRUE, enumValues |-> {}]]
    \o [i \in 1..6 |-> [path |-> <<"modules", RuleModules[i], "state">>,
                        type |-> "string", required |-> TRUE,
                        enumValues |-> validStates]]

\* a validateSchema that asks for "version" alone and looks at the modules
\* only when they are there
validateSchemaNoModules(doc) ==
    /\ containsKey(doc, "version") /\ isString(doc.v["version"])
    /\ (containsKey(doc, "modules") /\ isObject(doc.v["modules"])) =>
          \A name \in DOMAIN doc.v["modules"].v :
              LET moduleConfig == doc.v["modules"].v[name]
              IN  /\ containsKey(moduleConfig, "state") /\ isString(moduleConfig.v["state"])
                  /\ containsKey(moduleConfig, "priority") /\ isInt(moduleConfig.v["priority"])
                  /\ containsKey(moduleConfig, "version") /\ isString(moduleConfig.v["version"])

\* ConfigManager::validateSchema
validateSchema(doc) ==
    /\ containsKey(doc, "version") /\ isString(doc.v["version"])
    /\ containsKey(doc, "modules") /\ isObject(doc.v["modules"])
    /\ \A name \in DOMAIN doc.v["modules"].v :
          LET moduleConfig == doc.v["modules"].v[name]
          IN  /\ containsKey(moduleConfig, "state") /\ isString(moduleConfig.v["state"])
              /\ containsKey(moduleConfig, "priority") /\ isInt(moduleConfig.v["priority"])
              /\ containsKey(moduleConfig, "version") /\ isString(moduleConfig.v["version"])

\* ConfigManager::validateRequiredFields
validateRequiredFields(doc) ==
    \A i \in DOMAIN validationRules :
        validationRules[i].required =>
            ~isNull(getNestedValueConst(doc, validationRules[i].path))

\* a validateValueRanges that skips the enumerations as well
ruleHoldsTypeOnly(rule, value) ==
    \/ isNull(value)
    \/ /\ rule.type = "int" => isInt(value)
       /\ rule.type = "bool" => isBool(value)
       /\ rule.type = "string" => isString(value)

\* one turn of the loop of ConfigManager::validateValueRanges: the type of the
\* value, then the enumeration of a string rule; no rule's range is looked at
ruleHolds(rule, value) ==
    \/ isNull(value)
    \/ /\ rule.type = "int" => isInt(value)
       /\ rule.type = "bool" => isBool(value)
       /\ rule.type = "string" => isString(value)
       /\ (rule.type = "string" /\ rule.enumValues # {}) => asString(value) \in rule.enumValues

\* ConfigManager::validateValueRanges
validateValueRanges(doc) ==
    \A i \in DOMAIN validationRules :
        ruleHolds(validationRules[i], getNestedValueConst(doc, validationRules[i].path))

\* ConfigManager::validateConfiguration(doc)
validateConfiguration(doc) ==
    IF ~isVersionCompatible(getConfigVersion(doc)) THEN CONFIG_INVALID_VERSION
    ELSE IF ~validateSchema(doc) THEN CONFIG_INVALID_SCHEMA
    ELSE IF ~validateRequiredFields(doc) THEN CONFIG_MISSING_REQUIRED
    ELSE IF ~validateValueRanges(doc) THEN CONFIG_INVALID_VALUE
    ELSE CONFIG_VALID

\* ConfigManager::migrateFrom1_0_0_to1_1_0
migrateFrom1_0_0_to1_1_0(doc) ==
    IF containsKey(doc, "backup_settings") THEN doc
    ELSE Put(doc, "backup_settings",
             JsonObject([auto_backup |-> JsonBool(TRUE),
                         backup_count |-> JsonInt(10),
                         backup_interval_hours |-> JsonInt(24)]))

\* ConfigManager::migrateFrom1_1_0_to1_2_0
migrateFrom1_1_0_to1_2_0(doc) ==
    IF containsKey(doc, "monitoring") THEN doc
    ELSE Put(doc, "monitoring",
             JsonObject([enabled |-> JsonBool(TRUE),
                         health_check_interval |-> JsonInt(30000),
                         performance_tracking |-> JsonBool(TRUE)]))

\* the watchdog block that 2.0.0 adds to a module
ModuleWatchdog ==
    JsonObject([enabled |-> JsonBool(TRUE), timeout_ms |-> JsonInt(5000),
                auto_restart |-> JsonBool(TRUE)])

\* the system-wide watchdog block of 2.0.0
SystemWatchdog ==
    JsonObject([watchdog |->
        JsonObject([enabled |-> JsonBool(TRUE), timeout_ms |-> JsonInt(10000),
                    reset_on_timeout |-> JsonBool(TRUE)])])

\* a 2.0.0 step that replaces the module objects by their watchdog blocks
withWatchdogsOnly(modules_) ==
    IF ~isObject(modules_) THEN modules_
    ELSE JsonObject([name \in DOMAIN modules_.v |-> ModuleWatchdog])

\* the loop of migrateFrom1_2_0_to2_0_0 over doc["modules"]: a module that is
\* an object without "watchdog" receives the block
withWatchdogs(modules_) ==
    IF ~isObject(modules_) THEN modules_
    ELSE JsonObject([name \in DOMAIN modules_.v |->
            LET moduleConfig == modules_.v[name]
            IN  IF isObject(moduleConfig) /\ ~containsKey(moduleConfig, "watchdog")
                THEN Put(moduleConfig, "watchdog", ModuleWatchdog)
                ELSE moduleConfig])

\* ConfigManager::migrateFrom1_2_0_to2_0_0
migrateFrom1_2_0_to2_0_0(doc) ==
    LET d1 == IF containsKey(doc, "modules")
              THEN Put(doc, "modules", withWatchdogs(doc.v["modules"]))
              ELSE doc
    IN  IF containsKey(d1, "system") THEN d1 ELSE Put(d1, "system", SystemWatchdog)

\* ConfigManager::migrateConfiguration(doc, targetVersion); every step returns
\* true, so the call does
migrateConfiguration(doc, targetVersion) ==
    LET v0 == getConfigVersion(doc)
        target == chars(targetVersion)
        s1 == v0 = "1.0.0" /\ strLE(chars("1.1.0"), target)
        d1 == IF s1 THEN migrateFrom1_0_0_to1_1_0(doc) ELSE doc
        v1 == IF s1 THEN "1.1.0" ELSE v0
        s2 == v1 = "1.1.0" /\ strLE(chars("1.2.0"), target)
        d2 == IF s2 THEN migrateFrom1_1_0_to1_2_0(d1) ELSE d1
        v2 == IF s2 THEN "1.2.0" ELSE v1
        s3 == v2 = "1.2.0" /\ strLE(chars("2.0.0"), target)
        d3 == IF s3 THEN migrateFrom1_2_0_to2_0_0(d2) ELSE d2
    IN  IF v0 = targetVersion
        THEN [ret |-> TRUE, doc |-> doc]
        ELSE [ret |-> TRUE, doc |-> setConfigVersion(d3, targetVersion)]

\* ---- files
\* a file that does not exist
NoFile == [kind |-> "absent", json |-> JsonNull]
\* a file opened for writing and closed with nothing written
EmptyFile == [kind |-> "empty", json |-> JsonNull]
\* serializeJsonPretty(doc) written in full
TextOf(doc) == [kind |-> "text", json |-> doc]
\* the head of serializeJsonPretty(doc): the write stopped before the end
PartOf(doc) == [kind |-> "partial", json |-> doc]

\* what the filesystem may do with open(path, "w") and print(output)
FsOutcomes == {"ok", "open_fail", "write_zero", "write_partial"}

\* ConfigManager::saveConfigToFile(path, doc): old is the file at path before
\* the call, fsr the outcome of the filesystem
saveConfigToFile(old, doc, fsr) ==
    CASE fsr = "open_fail" -> [ret |-> FALSE, file |-> old]
      [] fsr = "write_zero" -> [ret |-> FALSE, file |-> EmptyFile]
      [] fsr = "write_partial" -> [ret |-> TRUE, file |-> PartOf(doc)]
      [] OTHER -> [ret |-> TRUE, file |-> TextOf(doc)]

\* ConfigManager::loadConfigFromFile(path, doc): exists, open, readString and
\* deserializeJson, which rejects an empty and an incomplete input
loadConfigFromFile(file) ==
    IF file.kind = "text"
    THEN [ret |-> TRUE, doc |-> file.json]
    ELSE [ret |-> FALSE, doc |-> JsonNull]

\* ConfigManager::getConfigurationHash: the MD5 digest of serializeJson(doc),
\* kept as the text it is the digest of
getConfigurationHash(doc) == [md5 |-> TextOf(doc)]

\* ---- backups
\* ConfigManager::generateBackupFilename, and the description createBackup
\* puts before ".json": backup_<millis>_<version>[_<description>].json
backupFilename(timestamp, version, description) ==
    [timestamp |-> timestamp, version |-> version, description |-> description]

\* String(millis())
toString(n) ==
    CASE n = 0 -> "0" [] n = 1 -> "1" [] n = 2 -> "2" [] n = 3 -> "3"
      [] OTHER -> "4"

\* the wrapper document of ConfigManager::createBackupInternal
backupDoc(doc, timestamp) ==
    JsonObject([backup_info |->
                    JsonObject([timestamp |-> JsonString(toString(timestamp)),
                                version |-> JsonString(getConfigVersion(doc)),
                                description |-> JsonString("Automatic backup")]),
                config |-> doc])

\* the directory dir after a file operation left file under name
withFile(dir, name, file) ==
    IF file.kind = "absent"
    THEN [n \in (DOMAIN dir) \ {name} |-> dir[n]]
    ELSE [n \in (DOMAIN dir) \cup {name} |-> IF n = name THEN file ELSE dir[n]]

fileAt(dir, name) == IF name \in DOMAIN dir THEN dir[name] ELSE NoFile

\* ConfigManager::createBackup(description) on an initialised engine; returns
\* the flag and the backup directory
createBackup(dir, doc, version, timestamp, description, fsr) ==
    LET name == backupFilename(timestamp, version, description)
        r == saveConfigToFile(fileAt(dir, name), backupDoc(doc, timestamp), fsr)
    IN  [ret |-> r.ret, dir |-> withFile(dir, name, r.file)]

\* ConfigManager::listBackups: one record for every file of the directory
listBackups(dir) ==
    {[filename |-> n,
      valid |-> TRUE,
      version |-> LET r == loadConfigFromFile(dir[n])
                  IN  IF r.ret /\ containsKey(r.doc, "backup_info")
                      THEN LET bv == Member(r.doc.v["backup_info"], "version")
                           IN  IF isString(bv) THEN bv.v ELSE "unknown"
                      ELSE ""] : n \in DOMAIN dir}

\* ---- the documents the environment supplies
\* a module-config object as the firmware writes it
StdModule(name, state) ==
    JsonObject([state |-> JsonString(state),
                priority |-> JsonInt(CtorPriority(name)),
                version |-> JsonString("1.0.0")])

\* "modules" with the six modules of the firmware
SixModules ==
    JsonObject([name \in {RuleModules[i] : i \in 1..6} |-> StdModule(name, "enabled")])

\* a complete document at the given version
FullDoc(version) ==
    JsonObject([version |-> JsonString(version), modules |-> SixModules])

\* the document CONTROL_FS::initConfigManager writes when there is none: the
\* sections "system" and "filesystem", no "modules"
SystemOnlyDoc ==
    JsonObject([version |-> JsonString("2.0.0"),
                system |-> JsonObject([name |-> JsonString("ESP32_Modular_System"),
                                       debug |-> JsonBool(TRUE),
                                       timezone |-> JsonString("UTC")]),
                filesystem |-> JsonObject([max_size |-> JsonInt(2097152),
                                           log_max_size |-> JsonInt(1048576),
                                           auto_format |-> JsonBool(FALSE),
                                           enable_cache |-> JsonBool(TRUE)])])

\* the documents written to the configuration file or handed to the engine
InputDocs == {FullDoc("2.0.0"), FullDoc("1.0.0"), SystemOnlyDoc}

\* the version strings a document may carry
VersionStrings == {"0.9.0", "1.0.0", "1.1.0", "1.2.0", "1.5.0", "2.0.0", "10.0.0", "9.9.9"}

\* the shapes of the documents handed to validateConfiguration and
\* migrateConfiguration: what "version" is ("absent", "int" for the number 5,
\* or a string), what "modules" is ("absent", "string", or an object with
\* "six" modules, "five" (no CONTROL_RADAR) or "seven" (one more, CUSTOM)),
\* which module differs from the standard one and in what, and whether the
\* user's "system" and "backup_settings" sections are there
DocShapes ==
    [version : {"absent", "int"} \cup VersionStrings,
     modules : {"absent", "string", "five", "six", "seven"},
     who : {WEB, "CUSTOM"},
     entry : {"object", "int"},
     state : {"enabled", "disabled", "error", "banana", "absent", "int"},
     priority : {"int", "absent", "string"},
     mversion : {"string", "absent"},
     system : BOOLEAN,
     backup_settings : BOOLEAN]

\* a shape says nothing twice: the fields that do not apply are at their default
NormalShape(s) ==
    /\ (s.who = "CUSTOM") => s.modules = "seven"
    /\ (s.modules \in {"absent", "string"}) =>
          s.who = WEB /\ s.entry = "object" /\ s.state = "enabled"
          /\ s.priority = "int" /\ s.mversion = "string"
    /\ (s.entry = "int") =>
          s.state = "enabled" /\ s.priority = "int" /\ s.mversion = "string"

\* the keys of f with the keys in S taken out
Without(f, S) == [k \in (DOMAIN f) \ S |-> f[k]]

\* the module-config object of the module that differs
VariedModule(s) ==
    IF s.entry = "int" THEN JsonInt(5)
    ELSE JsonObject(Without(
            [state |-> IF s.state = "int" THEN JsonInt(1) ELSE JsonString(s.state),
             priority |-> IF s.priority = "string" THEN JsonString("high") ELSE JsonInt(70),
             version |-> JsonString("1.0.0")],
            (IF s.state = "absent" THEN {"state"} ELSE {})
            \cup (IF s.priority = "absent" THEN {"priority"} ELSE {})
            \cup (IF s.mversion = "absent" THEN {"version"} ELSE {})))

\* the names under "modules"
ShapeModules(s) ==
    CASE s.modules = "five" -> {RuleModules[i] : i \in 1..5}
      [] s.modules = "seven" -> {RuleModules[i] : i \in 1..6} \cup {"CUSTOM"}
      [] OTHER -> {RuleModules[i] : i \in 1..6}

\* the document of a shape
DocOf(s) ==
    JsonObject(Without(
        [version |-> IF s.version = "int" THEN JsonInt(5) ELSE JsonString(s.version),
         modules |-> IF s.modules = "string" THEN JsonString("none")
                     ELSE JsonObject([name \in ShapeModules(s) |->
                             IF name = s.who THEN VariedModule(s)
                             ELSE StdModule(name, "enabled")]),
         system |-> JsonObject([name |-> JsonString("ESP32_Modular_System")]),
         backup_settings |-> JsonObject([auto_backup |-> JsonBool(FALSE)])],
        (IF s.version = "absent" THEN {"version"} ELSE {})
        \cup (IF s.modules = "absent" THEN {"modules"} ELSE {})
        \cup (IF s.system THEN {} ELSE {"system"})
        \cup (IF s.backup_settings THEN {} ELSE {"backup_settings"})))

\* the documents handed to validateConfiguration and migrateConfiguration
AllDocs == {DocOf(s) : s \in {s \in DocShapes : NormalShape(s)}} \cup {EmptyDoc}

\* ------------------------------------------------------------ message queues
\* the envelopes allocated in a run, and the largest QueueConfig::length
MaxMessages == 4
MaxQueueLength == 2

EVENT_DATA_READY == 1
EVENT_PROCESS_DONE == 2
CALL_FUNCTION_ASYNC == 2
portMAX_DELAY == "portMAX_DELAY"

JsonArray(s) == [t |-> "array", v |-> s]

\* the modules that own a QueueBase in this model, and the senders of envelopes
QueueOwners == {LCD, RADAR}
MsgIds == 1..MaxMessages

\* QueueBase::QueueBase: no FreeRTOS queue yet (queue_ == nullptr)
NoQueue == [created |-> FALSE, length |-> 1, sendTimeoutTicks |-> portMAX_DELAY,
            items |-> <<>>]

\* a QueueMessage: where it lives ("free": not allocated, "queued": in a queue,
\* "released": deleted with its variable bag, "lost": allocated, in no queue and
\* referenced by nobody) and its fields
QueueMessage(state, to, from, ev, call, name, bag) ==
    [state |-> state, toQueue |-> to, fromQueue |-> from, eventType |-> ev,
     callType |-> call, callName |-> name, callVariables |-> bag]

NoMessage == QueueMessage("free", "none", "none", 0, 0, "none", JsonNull)

\* the envelope each sender builds for CONTROL_LCD
radarMessage(speed) ==
    QueueMessage("sender", LCD, RADAR, EVENT_DATA_READY, CALL_FUNCTION_ASYNC,
                 "lcd_radar_update",
                 JsonObject([d |-> JsonInt(12), v |-> JsonInt(speed)]))

auditMessage ==
    QueueMessage("sender", LCD, FS, EVENT_DATA_READY, CALL_FUNCTION_ASYNC,
                 "lcd_log_append",
                 JsonObject([v |-> JsonArray(<<JsonString("Audit: scanning files...")>>)]))

statusMessage ==
    QueueMessage("sender", LCD, "main", EVENT_DATA_READY, CALL_FUNCTION_ASYNC,
                 "lcd_status",
                 JsonObject([title |-> JsonString("System"),
                             lines |-> JsonArray(<<JsonString("Initialized")>>)]))

SenderMessages == {radarMessage(0), radarMessage(5), auditMessage, statusMessage}

\* xQueueSendToFront in the place of xQueueSend
xQueueSendToFront(queue, id) ==
    IF Len(queue.items) < queue.length
    THEN [ret |-> TRUE, items |-> <<id>> \o queue.items]
    ELSE [ret |-> FALSE, items |-> queue.items]

\* xQueueSend with a timeout that elapses: the item goes to the back when there
\* is room, the call fails and the queue is left alone when there is none
xQueueSend(queue, id) ==
    IF Len(queue.items) < queue.length
    THEN [ret |-> TRUE, items |-> Append(queue.items, id)]
    ELSE [ret |-> FALSE, items |-> queue.items]

\* QueueBase::send
send(queue, id) ==
    IF ~queue.created THEN [ret |-> FALSE, items |-> queue.items]
    ELSE xQueueSend(queue, id)

\* an answer that carries the payload without the tag
responseUntagged(incoming, id) ==
    QueueMessage("sender", incoming.fromQueue, id, EVENT_PROCESS_DONE,
                 CALL_FUNCTION_ASYNC, "RECEIVE_RETURN_CALL_FUNC",
                 JsonObject([v |-> JsonArray(<<Member(incoming.callVariables, "v")>>)]))

\* the envelope QueueBase::RECEIVE_RETURN_CALL_FUNC builds for a request
response(incoming, id) ==
    QueueMessage("sender", incoming.fromQueue, id, EVENT_PROCESS_DONE,
                 CALL_FUNCTION_ASYNC, "RECEIVE_RETURN_CALL_FUNC",
                 JsonObject([v |-> JsonArray(<<JsonString("RESULT"),
                                              Member(incoming.callVariables, "v")>>)]))

\* ------------------------------------------------------------------ watchdog
\* WatchdogManager::systemTimeout in ticks of the model's clock
SystemTimeout == 3

\* the tasks that may subscribe to the task watchdog, and the Arduino loop task
WdTasks == {"taskA", "taskB"}
LoopTask == "loopTask"

\* WatchdogManager::WatchdogManager: nothing initialised, no timer
NoWatchdog ==
    [initialized |-> FALSE, timerActive |-> FALSE, timerLeft |-> SystemTimeout,
     subscribed |-> {}, sinceReset |-> [t \in WdTasks |-> 0], stalled |-> {},
     reset |-> "none", op |-> "none"]

\* esp_task_wdt_reset() called by a task: its counter starts again
esp_task_wdt_reset(w, task) ==
    IF task \in w.subscribed
    THEN [w EXCEPT !.sinceReset[task] = 0]
    ELSE w

\* WatchdogManager::addTaskToWatchdog
addTaskToWatchdog(w, task) ==
    IF ~w.initialized THEN w
    ELSE [w EXCEPT !.subscribed = @ \cup {task}, !.sinceReset[task] = 0]

\* WatchdogManager::feedSystemWatchdog called by a task: xTimerReset starts the
\* period of the software timer again, and the caller's task watchdog is fed
feedSystemWatchdog(w, caller) ==
    IF ~w.initialized THEN w
    ELSE esp_task_wdt_reset([w EXCEPT !.timerActive = TRUE,
                                      !.timerLeft = SystemTimeout], caller)

\* WatchdogManager::feedTaskWatchdog called by the task itself
feedTaskWatchdog(w, task) ==
    IF ~w.initialized THEN w
    ELSE IF task \in w.subscribed THEN esp_task_wdt_reset(w, task)
    ELSE addTaskToWatchdog(w, task)

\* the subscribed tasks whose counter reaches the timeout of the task watchdog
Starved(w) == {t \in w.subscribed : w.sinceReset[t] + 1 >= SystemTimeout}

\* one tick of the clock for the timer and for the counters of the task watchdog
elapse(w) ==
    [w EXCEPT !.timerLeft = IF w.timerActive THEN @ - 1 ELSE @,
              !.sinceReset = [t \in WdTasks |->
                                 IF t \in w.subscribed THEN @[t] + 1 ELSE @[t]]]

\* ------------------------------------------------------------- tasks and locks
\* the tasks of the firmware that take part: the Arduino loop task (setup and
\* loop), the task of CONTROL_LCD, and the task of CONTROL_WEB, which serves
\* the HTTP requests
LcdTask == "CONTROL_LCD_TASK"
Workers == {"CONTROL_WEB_TASK"}
Tasks == {LoopTask, LcdTask} \cup Workers

\* one step of a function: take or give fsMutex, a SPIFFS operation (io), a
\* drawing on the display (draw), a call, a return unless module m is enabled
\* (guard), a jump over the next step unless module m is enabled (skipUnless)
Ins(k, f, m) == [k |-> k, f |-> f, m |-> m]

\* the functions as the sequences of their steps
Code(fn) ==
    CASE fn = "writeFile" ->
            <<Ins("take", "", ""), Ins("io", "", ""), Ins("give", "", "")>>
      [] fn = "writeFileOpenFails" ->
            <<Ins("take", "", ""), Ins("io", "", ""), Ins("call", "log", ""),
              Ins("give", "", "")>>
      [] fn = "readFile" ->
            <<Ins("take", "", ""), Ins("call", "fileExists", ""), Ins("io", "", ""),
              Ins("give", "", "")>>
      [] fn = "deleteFile" ->
            <<Ins("take", "", ""), Ins("call", "fileExists", ""), Ins("io", "", ""),
              Ins("give", "", "")>>
      [] fn = "createDirectory" ->
            <<Ins("take", "", ""), Ins("call", "writeFile", ""), Ins("give", "", "")>>
      [] fn = "fileExists" ->
            <<Ins("take", "", ""), Ins("io", "", ""), Ins("give", "", "")>>
      [] fn = "writeLog" -> <<Ins("call", "writeFile", "")>>
      [] fn = "logToFile" -> <<Ins("guard", "", FS), Ins("call", "writeLog", "")>>
      [] fn = "log" -> <<Ins("call", "logToFile", ""), Ins("call", "appendLCDLog", "")>>
      [] fn = "appendLCDLog" -> <<Ins("guard", "", LCD), Ins("draw", "", "")>>
      [] fn = "renderLoadingStep" ->
            <<Ins("guard", "", LCD), Ins("draw", "", ""),
              Ins("call", "appendLCDLog", "")>>
      [] fn = "lcdUpdate" -> <<Ins("draw", "", "")>>
      [] fn = "getFileSize" ->
            <<Ins("take", "", ""), Ins("io", "", ""), Ins("give", "", "")>>
      [] fn = "fsUpdate" -> <<Ins("call", "getFileSize", "")>>
      [] fn = "runner" -> <<Ins("guard", "", LCD), Ins("call", "lcdUpdate", "")>>
      [] fn = "updateModules" ->
            <<Ins("skipUnless", "", FS), Ins("call", "fsUpdate", ""),
              Ins("skipUnless", "", LCD), Ins("call", "lcdUpdate", "")>>
      [] fn = "saveConfigToFile" -> <<Ins("io", "", "")>>
      [] fn = "loadConfigFromFile" -> <<Ins("io", "", "")>>
      [] OTHER -> <<>>

\* the operations of CONTROL_FS that take fsMutex themselves
FsOperations == {"readFile", "writeFile", "writeFileOpenFails", "deleteFile",
                 "createDirectory"}

\* what each task calls
Entry(t) ==
    CASE t = LoopTask -> {"renderLoadingStep", "log", "updateModules"}
      [] t = LcdTask -> {"runner"}
      [] OTHER -> FsOperations \cup {"log", "saveConfigToFile", "loadConfigFromFile"}

Frame(fn, pc) == [fn |-> fn, pc |-> pc]

\* ------------------------------------------------------------------- state
VARIABLES
    objs,               \* the module objects: object id -> fields
    modules,            \* ModuleManager::modules, a vector of Module*
    wifiConnectedLast,  \* ModuleManager::wifiConnectedLast
    tasks,              \* the RTOS task spawned for an object: "none", "ready", "suspended"
    regTasks,           \* ModuleRegistry::tasks_  : module name -> task handle
    regQueues,          \* ModuleRegistry::queues_ : module name -> queue handle
    last,               \* the operation just performed and what it returned
    requests,           \* the commands (cmd) and configuration documents (cfg) received
    currentConfig,      \* ConfigManager::currentConfig, the in-memory document
    currentVersion,     \* ConfigManager::currentVersion
    configFile,         \* the file at ConfigManager::configPath
    backupDir,          \* the files of ConfigManager::backupPath: name -> file
    millis,             \* the value millis() returns
    cmLast,             \* the engine operation just performed
    msgQueues,          \* the QueueBase of a module: owner name -> configuration and items
    heap,               \* the QueueMessage envelopes allocated with new: id -> envelope
    received,           \* the envelopes CONTROL_LCD::update() received, in order
    busLast,            \* the queue operation just performed
    wd,                 \* FreeRTOSWatchdog: its timer, the task watchdog, the reset
    fsMutex,            \* CONTROL_FS::fsMutex: "nullptr", "free" or the task that holds it
    stacks,             \* the calls each task is in, the innermost last
    modState,           \* the state of the modules the tasks look at
    globalConfig,       \* the module settings of the stored global configuration
    entries_,           \* ModuleRegistry::Functions::entries_: key -> FunctionEntry
    fnLast              \* the function-registry operation just performed

\* the state of the lifecycle manager and of the modules
lifecycleVars == <<objs, modules, wifiConnectedLast, tasks, regTasks, regQueues,
                   last, requests>>
\* the state of the configuration engine and of its files
engineVars == <<currentConfig, currentVersion, configFile, backupDir, millis, cmLast>>

\* the state of the message queues and of the watchdog
rtosVars == <<msgQueues, heap, received, busLast, wd>>

\* the state of the tasks
\* the state of the function registry
fnVars == <<entries_, fnLast>>

concVars == <<fsMutex, stacks, modState, globalConfig, fnVars>>

vars == <<lifecycleVars, engineVars, rtosVars, concVars>>

\* the record of an operation: its name, the object it addressed, the flag it
\* returned, the init()/start() calls it made in order, the modules it selected,
\* the objects whose init()/start() returned failure, and whether it
\* dereferenced a deleted module
Op(op, tgt, ret, calls, sel, failed, dangling) ==
    [op |-> op, tgt |-> tgt, ret |-> ret, calls |-> calls, sel |-> sel,
     failed |-> failed, dangling |-> dangling, stopped |-> {}]

\* the same for an operation that called stop() on the objects in stopped
OpStop(op, tgt, ret, calls, failed, stopped) ==
    [Op(op, tgt, ret, calls, <<>>, failed, FALSE) EXCEPT !.stopped = stopped]

\* no task is in a call, CONTROL_FS::init has not created fsMutex yet
InitTasks ==
    /\ fsMutex = "nullptr"
    /\ stacks = [t \in Tasks |-> <<>>]
    /\ modState = [m \in {FS, LCD} |-> MODULE_ENABLED]

\* a global configuration that names no module
NoGlobalConfig == [place |-> "top", name |-> "none", entry |-> NoKeys]

\* no function registered
InitFunctions ==
    /\ entries_ = <<>>
    /\ fnLast = [op |-> "none", moduleName |-> "", functionName |-> "",
                 registered |-> FALSE, ret |-> FALSE, invoked |-> "none"]

InitConc ==
    /\ InitTasks
    /\ InitFunctions
    /\ globalConfig = NoGlobalConfig

\* no queue created, no envelope allocated, no watchdog
InitBus ==
    /\ msgQueues = [q \in QueueOwners |-> NoQueue]
    /\ heap = [i \in MsgIds |-> NoMessage]
    /\ received = [q \in QueueOwners |-> <<>>]
    /\ busLast = [op |-> "none", who |-> "none", queue |-> "none", msg |-> 0,
                  ret |-> "void"]
    /\ wd = NoWatchdog

InitRtos == InitBus /\ InitConc

\* the engine after ConfigManager::ConfigManager and initialize(): an empty
\* document, no configuration file, an empty backup directory
InitEngineOnly ==
    /\ currentConfig = EmptyDoc
    /\ currentVersion = CONFIG_VERSION_CURRENT
    /\ configFile = NoFile
    /\ backupDir = <<>>
    /\ millis = 0
    /\ cmLast = [op |-> "initialize", ret |-> TRUE, result |-> "none",
                 doc |-> JsonNull, out |-> JsonNull, backup |-> "none"]

InitEngine == InitEngineOnly /\ InitRtos

Init ==
    /\ objs = [o \in ObjIds |-> NoModule]
    /\ modules = <<>>
    /\ wifiConnectedLast = FALSE
    /\ tasks = [o \in ObjIds |-> "none"]
    /\ regTasks = [c \in Classes |-> nullptr]
    /\ regQueues = [c \in Classes |-> nullptr]
    /\ last = Op("boot", nullptr, TRUE, <<>>, <<>>, {}, FALSE)
    /\ requests = [cmd |-> 0, cfg |-> 0]
    /\ InitEngine

\* ------------------------------------------------------------ manager helpers
Range(s) == {s[i] : i \in DOMAIN s}

Min(S) == CHOOSE x \in S : \A y \in S : x <= y

\* ModuleManager::getModule
getModule(ms, os, name) ==
    LET hits == {i \in DOMAIN ms : os[ms[i]].cls = name}
    IN  IF hits = {} THEN nullptr ELSE ms[Min(hits)]

\* vector::erase(begin() + i)
Erase(s, i) == SubSeq(s, 1, i - 1) \o SubSeq(s, i + 1, Len(s))

\* the rearrangements of a vector
Rearrangements(s) ==
    {p \in [DOMAIN s -> Range(s)] :
        \A x \in Range(s) : Cardinality({i \in DOMAIN s : p[i] = x})
                            = Cardinality({i \in DOMAIN s : s[i] = x})}

\* a sort whose comparator is a.priority < b.priority
sortAscending(ms, os) ==
    {p \in Rearrangements(ms) :
        \A i, j \in DOMAIN p : i < j => os[p[i]].priority <= os[p[j]].priority}

\* ModuleManager::sortModulesByPriority: std::sort with the comparator
\* a->getPriority() > b->getPriority(). std::sort leaves the order of
\* equivalent elements unspecified (it is an introsort, which swaps equal
\* elements across its pivot once the vector is longer than its insertion-sort
\* threshold), so every descending rearrangement is a possible result
sortModulesByPriority(ms, os) ==
    {p \in Rearrangements(ms) :
        \A i, j \in DOMAIN p : i < j => os[p[i]].priority >= os[p[j]].priority}

\* the hardware outcomes for one pass ("init" or "start") that calls the
\* modules in S
HwFor(os, S, pass) ==
    {h \in [ObjIds -> {"ok", "fail", "late_fail", "ap_fail", "sta_fail"}] :
        \A o \in ObjIds :
            h[o] \in (CASE o \notin S -> {"ok"}
                        [] pass = "init" -> InitOutcomes(os[o].cls)
                        [] OTHER -> Outcomes(os[o].cls))}

\* the outcomes of xQueueCreate (q) and xTaskCreate (t) for each object
RtosOk == {[o \in ObjIds |-> [q |-> TRUE, t |-> TRUE]]}

\* the part of the state the manager's loops thread through
St(os, tk, rt, rq) == [objs |-> os, tasks |-> tk, regTasks |-> rt, regQueues |-> rq]

\* ModuleManager::ensureModuleQueue, with QueueBase::create
ensureModuleQueue(st, o, ok) ==
    IF ~st.objs[o].useQueue \/ st.objs[o].queueBase \/ ~ok
    THEN st
    ELSE [st EXCEPT !.regQueues[st.objs[o].cls] = o,
                    !.objs[o].queueBase = TRUE]

\* a startModuleTask that attaches the task and leaves the registry alone
startModuleTaskUnregistered(st, o, ok) ==
    IF ~st.objs[o].useTask \/ st.objs[o].taskBase \/ ~ok
    THEN st
    ELSE [st EXCEPT !.tasks[o] = "ready", !.objs[o].taskBase = TRUE]

\* ModuleManager::startModuleTask, with TaskBase::start
startModuleTask(st, o, ok) ==
    IF ~st.objs[o].useTask \/ st.objs[o].taskBase \/ ~ok
    THEN st
    ELSE [st EXCEPT !.tasks[o] = "ready",
                    !.objs[o].taskBase = TRUE,
                    !.regTasks[st.objs[o].cls] = o]

\* the loop of ModuleManager::initModules over the sorted vector
RECURSIVE initLoop(_, _, _, _, _, _)
initLoop(os, order, i, hw, calls, failed) ==
    IF i > Len(order)
    THEN [objs |-> os, ret |-> TRUE, calls |-> calls, failed |-> failed]
    ELSE LET o == order[i]
             r == init(os[o], hw[o])
             calls1 == Append(calls, o)
         IN  IF ~r.ret
             THEN LET os1 == [os EXCEPT ![o] = [r.m EXCEPT !.state = MODULE_ERROR]]
                  IN  IF r.m.critical
                      THEN [objs |-> os1, ret |-> FALSE, calls |-> calls1,
                            failed |-> failed \cup {o}]
                      ELSE initLoop(os1, order, i + 1, hw, calls1, failed \cup {o})
             ELSE initLoop([os EXCEPT ![o] = r.m], order, i + 1, hw, calls1, failed)

\* ModuleManager::initModules on the vector as sorted
initModules(os, order, hw) == initLoop(os, order, 1, hw, <<>>, {})

\* the guard of ModuleManager::startModules on CONTROL_WEB: its start() waits
\* for a registered CONTROL_WIFI to be connected
allowStart(st, ms, o) ==
    ~(st.objs[o].cls = WEB /\ getModule(ms, st.objs, WIFI) # nullptr
      /\ ~st.objs[getModule(ms, st.objs, WIFI)].isConnected)

\* an iteration that goes on after the start() of a critical module failed
startedOneNoAbort(st, o, r, rtos) ==
    [st |-> startModuleTask(
                ensureModuleQueue(
                    [st EXCEPT !.objs[o] = IF r.ret THEN r.m
                                           ELSE [r.m EXCEPT !.state = MODULE_ERROR]],
                    o, rtos.q),
                o, rtos.t),
     ret |-> TRUE, failed |-> ~r.ret]

\* the rest of an iteration of ModuleManager::startModules once start() has
\* answered r: [st, ret (FALSE: return false now), failed]
startedOne(st, o, r, rtos) ==
    IF r.ret
    THEN [st |-> startModuleTask(
                     ensureModuleQueue([st EXCEPT !.objs[o] = r.m], o, rtos.q),
                     o, rtos.t),
          ret |-> TRUE, failed |-> FALSE]
    ELSE IF r.m.critical
    THEN [st |-> [st EXCEPT !.objs[o] = [r.m EXCEPT !.state = MODULE_ERROR]],
          ret |-> FALSE, failed |-> TRUE]
    ELSE [st |-> startModuleTask(
                     ensureModuleQueue(
                         [st EXCEPT !.objs[o] = [r.m EXCEPT !.state = MODULE_ERROR]],
                         o, rtos.q),
                     o, rtos.t),
          ret |-> TRUE, failed |-> TRUE]

\* one iteration of the loop of ModuleManager::startModules for a selected
\* module
startOne(st, ms, o, hw, rtos) ==
    startedOne(st, o,
               IF allowStart(st, ms, o) THEN start(st.objs[o], hw)
               ELSE [m |-> st.objs[o], ret |-> TRUE],
               rtos)

\* the loop of ModuleManager::startModules (startLoop), and what it does
\* with the iteration r just done on ms[i] (startNext)
RECURSIVE startLoop(_, _, _, _, _, _, _, _)
RECURSIVE startNext(_, _, _, _, _, _, _, _)
startNext(r, ms, i, hw, rtos, calls, sel, failed) ==
    IF ~r.ret
    THEN [st |-> r.st, ret |-> FALSE, calls |-> calls, sel |-> sel,
          failed |-> IF r.failed THEN failed \cup {ms[i]} ELSE failed]
    ELSE startLoop(r.st, ms, i + 1, hw, rtos, calls, sel,
                   IF r.failed THEN failed \cup {ms[i]} ELSE failed)

startLoop(st, ms, i, hw, rtos, calls, sel, failed) ==
    IF i > Len(ms)
    THEN [st |-> st, ret |-> TRUE, calls |-> calls, sel |-> sel, failed |-> failed]
    ELSE IF ~(st.objs[ms[i]].autoStart /\ st.objs[ms[i]].state = MODULE_ENABLED)
    THEN startLoop(st, ms, i + 1, hw, rtos, calls, sel, failed)
    ELSE startNext(startOne(st, ms, ms[i], hw[ms[i]], rtos[ms[i]]), ms, i, hw, rtos,
                   IF allowStart(st, ms, ms[i]) THEN Append(calls, ms[i]) ELSE calls,
                   Append(sel, ms[i]), failed)

\* ModuleManager::startModules
startModules(st, ms, hw, rtos) == startLoop(st, ms, 1, hw, rtos, <<>>, <<>>, {})

\* ModuleManager::stopModules
stopModules(os, ms) ==
    [o \in ObjIds |-> IF o \in Range(ms) /\ os[o].state = MODULE_ENABLED
                      THEN stop(os[o]).m ELSE os[o]]

\* the WiFi/web wiring at the head of ModuleManager::updateModules when the
\* connection changed and CONTROL_WEB is registered: start or stop the server,
\* resume or suspend its task
wiredWeb(w, webModule, connected, hw) ==
    LET web == w.objs[webModule]
        r == IF connected /\ ~web.serverRunning THEN start(web, hw)
             ELSE IF ~connected /\ web.serverRunning THEN stop(web)
             ELSE [m |-> web, ret |-> TRUE]
    IN  [objs |-> [w.objs EXCEPT ![webModule] = r.m],
         tasks |-> IF ~web.taskBase THEN w.tasks
                   ELSE [w.tasks EXCEPT ![webModule] =
                            IF connected THEN "ready" ELSE "suspended"],
         calls |-> IF connected /\ ~web.serverRunning THEN <<webModule>> ELSE <<>>,
         failed |-> IF r.ret THEN {} ELSE {webModule},
         stopped |-> IF ~connected /\ web.serverRunning THEN {webModule} ELSE {},
         last |-> connected]

\* a wiring that acts on the level of the connected flag, not on its change
wifiWiringLevel(os, tk, ms, wlast, hw) ==
    LET wifiModule == getModule(ms, os, WIFI)
        webModule == getModule(ms, os, WEB)
        connected == os[wifiModule].isConnected
        quiet == [objs |-> os, tasks |-> tk, calls |-> <<>>, failed |-> {},
                  stopped |-> {}, last |-> wlast]
    IN  IF wifiModule = nullptr
        THEN quiet
        ELSE IF webModule = nullptr
        THEN [quiet EXCEPT !.last = connected]
        ELSE wiredWeb(quiet, webModule, connected, hw)

\* the WiFi/web wiring at the head of ModuleManager::updateModules:
\* [objs, tasks, last (the new wifiConnectedLast), and the start() and stop()
\* calls it made]
wifiWiring(os, tk, ms, wlast, hw) ==
    LET wifiModule == getModule(ms, os, WIFI)
        webModule == getModule(ms, os, WEB)
        connected == os[wifiModule].isConnected
        quiet == [objs |-> os, tasks |-> tk, calls |-> <<>>, failed |-> {},
                  stopped |-> {}, last |-> wlast]
    IN  IF wifiModule = nullptr \/ connected = wlast
        THEN quiet
        ELSE IF webModule = nullptr
        THEN [quiet EXCEPT !.last = connected]
        ELSE wiredWeb(quiet, webModule, connected, hw)

\* the update() loop at the tail of ModuleManager::updateModules
updateLoop(os, ms, net) ==
    [o \in ObjIds |-> IF o \in Range(ms) /\ os[o].state = MODULE_ENABLED
                      THEN update(os[o], net) ELSE os[o]]

\* ------------------------------------------------------------------ actions
\* the object id the next constructor call produces
FreeIds == {o \in ObjIds : objs[o].cls = "none"}

\* a registerModule that appends without looking the name up
RegisterModuleNoCheck(c) ==
    /\ FreeIds # {}
    /\ objs' = [objs EXCEPT ![Min(FreeIds)] = NewModule(c)]
    /\ modules' = Append(modules, Min(FreeIds))
    /\ last' = Op("register", Min(FreeIds), TRUE, <<>>, <<>>, {}, FALSE)
    /\ UNCHANGED <<wifiConnectedLast, tasks, regTasks, regQueues, requests>>
    /\ UNCHANGED <<engineVars, rtosVars, concVars>>

\* ModuleManager::registerModule(new CONTROL_X())
RegisterModule(c) ==
    /\ FreeIds # {}
    /\ LET o == Min(FreeIds)
           dup == getModule(modules, objs, c) # nullptr
       IN  /\ objs' = [objs EXCEPT ![o] = NewModule(c)]
           /\ modules' = IF dup THEN modules ELSE Append(modules, o)
           /\ last' = Op("register", o, ~dup, <<>>, <<>>, {}, FALSE)
    /\ UNCHANGED <<wifiConnectedLast, tasks, regTasks, regQueues, requests>>
    /\ UNCHANGED <<engineVars, rtosVars, concVars>>

\* ModuleManager::registerModule(nullptr)
RegisterNull ==
    /\ last' = Op("register", nullptr, FALSE, <<>>, <<>>, {}, FALSE)
    /\ UNCHANGED <<objs, modules, wifiConnectedLast, tasks, regTasks, regQueues, requests>>
    /\ UNCHANGED <<engineVars, rtosVars, concVars>>

\* ModuleManager::unregisterModule(name): stop(), delete (whose destructor
\* calls stop() again and frees the configuration document), erase
UnregisterModule(c) ==
    LET o == getModule(modules, objs, c)
    IN  /\ IF o = nullptr
           THEN /\ UNCHANGED <<objs, modules>>
                /\ last' = Op("unregister", nullptr, FALSE, <<>>, <<>>, {}, FALSE)
           ELSE /\ objs' = [objs EXCEPT
                               ![o] = [stop(stop(objs[o]).m).m EXCEPT !.alive = FALSE]]
                /\ modules' = Erase(modules, Min({i \in DOMAIN modules : modules[i] = o}))
                /\ last' = OpStop("unregister", o, TRUE, <<>>, {}, {o})
        /\ UNCHANGED <<wifiConnectedLast, tasks, regTasks, regQueues, requests>>
        /\ UNCHANGED <<engineVars, rtosVars, concVars>>

\* ModuleManager::initModules
InitModules ==
    \E order \in sortModulesByPriority(modules, objs) :
    \E hw \in HwFor(objs, Range(modules), "init") :
        LET r == initModules(objs, order, hw)
        IN  /\ objs' = r.objs
            /\ modules' = order
            /\ last' = Op("init", nullptr, r.ret, r.calls, <<>>, r.failed, FALSE)
            /\ UNCHANGED <<wifiConnectedLast, tasks, regTasks, regQueues, requests>>
            /\ UNCHANGED <<engineVars, rtosVars, concVars>>

\* the modules the loop of ModuleManager::startModules selects: start() of
\* one module leaves the state and the autostart flag of the others alone
startSelected(os, ms) ==
    {o \in Range(ms) : os[o].autoStart /\ os[o].state = MODULE_ENABLED}

\* ModuleManager::startModules; rtosSet is what the RTOS may answer
StartModules(rtosSet) ==
    \E hw \in HwFor(objs, startSelected(objs, modules), "start") :
    \E rtos \in rtosSet :
        LET r == startModules(St(objs, tasks, regTasks, regQueues), modules, hw, rtos)
        IN  /\ objs' = r.st.objs
            /\ tasks' = r.st.tasks
            /\ regTasks' = r.st.regTasks
            /\ regQueues' = r.st.regQueues
            /\ last' = Op("start", nullptr, r.ret, r.calls, r.sel, r.failed, FALSE)
            /\ UNCHANGED <<modules, wifiConnectedLast, requests>>
            /\ UNCHANGED <<engineVars, rtosVars, concVars>>

\* ModuleManager::stopModules
StopModules ==
    /\ objs' = stopModules(objs, modules)
    /\ last' = OpStop("stop", nullptr, TRUE, <<>>, {},
                       {o \in Range(modules) : objs[o].state = MODULE_ENABLED})
    /\ UNCHANGED <<modules, wifiConnectedLast, tasks, regTasks, regQueues, requests>>
    /\ UNCHANGED <<engineVars, rtosVars, concVars>>

\* ModuleManager::updateModules, called by loop()
UpdateModules ==
    \E hw \in Outcomes(WEB) :
    \E net \in {"same", "up", "down"} :
        LET w == wifiWiring(objs, tasks, modules, wifiConnectedLast, hw)
        IN  /\ objs' = updateLoop(w.objs, modules, net)
            /\ tasks' = w.tasks
            /\ wifiConnectedLast' = w.last
            /\ last' = OpStop("update", nullptr, TRUE, w.calls, w.failed, w.stopped)
            /\ UNCHANGED <<modules, regTasks, regQueues, requests>>
            /\ UNCHANGED <<engineVars, rtosVars, concVars>>

\* the runner of ModuleManager::startModuleTask, one turn of its loop
TaskRun(o) ==
    /\ tasks[o] = "ready"
    /\ \E net \in {"same", "up", "down"} :
          objs' = IF objs[o].alive /\ objs[o].state = MODULE_ENABLED
                  THEN [objs EXCEPT ![o] = update(objs[o], net)]
                  ELSE objs
    /\ last' = Op("task", o, TRUE, <<>>, <<>>, {}, ~objs[o].alive)
    /\ UNCHANGED <<modules, wifiConnectedLast, tasks, regTasks, regQueues, requests>>
    /\ UNCHANGED <<engineVars, rtosVars, concVars>>

\* CONTROL_SERIAL::checkSafetyLimits for the commands "stop" and "disable"
checkSafetyLimits(c, command) ==
    ~(command \in {"stop", "disable"} /\ c \in {FS, SERIAL})

\* the environment sends one more command
Command ==
    /\ requests.cmd < MaxCommands
    /\ requests' = [requests EXCEPT !.cmd = @ + 1]

\* the environment applies one more configuration document
Document ==
    /\ requests.cfg < MaxConfigs
    /\ requests' = [requests EXCEPT !.cfg = @ + 1]

\* a command on module c that finds no such module, or is blocked
Refused(kind) ==
    /\ last' = Op(kind, nullptr, FALSE, <<>>, <<>>, {}, FALSE)
    /\ UNCHANGED objs

\* "start <name>" of CONTROL_SERIAL::processCommand (cmdModuleStart) and
\* action=start of CONTROL_WEB::handleAPIModuleControl
CommandStart(c) ==
    LET o == getModule(modules, objs, c)
    IN  /\ IF o = nullptr
           THEN Refused("cmd_start")
           ELSE \E hw \in Outcomes(c) :
                   LET r == start(objs[o], hw)
                   IN  /\ objs' = [objs EXCEPT ![o] = r.m]
                       /\ last' = Op("cmd_start", o, r.ret, <<o>>, <<>>,
                                     IF r.ret THEN {} ELSE {o}, FALSE)
        /\ Command
        /\ UNCHANGED <<modules, wifiConnectedLast, tasks, regTasks, regQueues>>
        /\ UNCHANGED <<engineVars, rtosVars, concVars>>

\* "stop <name>" of CONTROL_SERIAL::processCommand (cmdModuleStop, behind
\* checkSafetyLimits) and action=stop of CONTROL_WEB::handleAPIModuleControl
\* (no safety check)
CommandStop(c, viaCli) ==
    LET o == getModule(modules, objs, c)
    IN  /\ IF o = nullptr \/ (viaCli /\ ~checkSafetyLimits(c, "stop"))
           THEN Refused("cmd_stop")
           ELSE /\ objs' = [objs EXCEPT ![o] = stop(objs[o]).m]
                /\ last' = OpStop("cmd_stop", o, TRUE, <<>>, {}, {o})
        /\ Command
        /\ UNCHANGED <<modules, wifiConnectedLast, tasks, regTasks, regQueues>>
        /\ UNCHANGED <<engineVars, rtosVars, concVars>>

\* command=restart of CONTROL_WEB::handleAPIModuleCommand: stop() && start()
CommandRestart(c) ==
    LET o == getModule(modules, objs, c)
    IN  /\ IF o = nullptr
           THEN Refused("cmd_restart")
           ELSE \E hw \in Outcomes(c) :
                   LET r == start(stop(objs[o]).m, hw)
                   IN  /\ objs' = [objs EXCEPT ![o] = r.m]
                       /\ last' = OpStop("cmd_restart", o, r.ret, <<o>>,
                                         IF r.ret THEN {} ELSE {o}, {o})
        /\ Command
        /\ UNCHANGED <<modules, wifiConnectedLast, tasks, regTasks, regQueues>>
        /\ UNCHANGED <<engineVars, rtosVars, concVars>>

\* "enable <name>" and "disable <name>" of CONTROL_SERIAL::processCommand
CommandEnable(c, on) ==
    LET o == getModule(modules, objs, c)
        kind == IF on THEN "cmd_enable" ELSE "cmd_disable"
    IN  /\ IF o = nullptr \/ ~checkSafetyLimits(c, IF on THEN "enable" ELSE "disable")
           THEN Refused(kind)
           ELSE /\ objs' = [objs EXCEPT ![o].state =
                               IF on THEN MODULE_ENABLED ELSE MODULE_DISABLED]
                /\ last' = Op(kind, o, TRUE, <<>>, <<>>, {}, FALSE)
        /\ Command
        /\ UNCHANGED <<modules, wifiConnectedLast, tasks, regTasks, regQueues>>
        /\ UNCHANGED <<engineVars, rtosVars, concVars>>

\* "autostart <name> on|off" of CONTROL_SERIAL::processCommand and
\* CONTROL_WEB::handleAPIModuleAutostart
CommandAutostart(c, on) ==
    LET o == getModule(modules, objs, c)
    IN  /\ IF o = nullptr
           THEN Refused("cmd_autostart")
           ELSE /\ objs' = [objs EXCEPT ![o].autoStart = on]
                /\ last' = Op("cmd_autostart", o, TRUE, <<>>, <<>>, {}, FALSE)
        /\ Command
        /\ UNCHANGED <<modules, wifiConnectedLast, tasks, regTasks, regQueues>>
        /\ UNCHANGED <<engineVars, rtosVars, concVars>>

\* ModuleManager::applyConfig(doc), which loadGlobalConfig calls with the
\* configuration engine's document
ApplyConfig(docs) ==
    \E doc \in docs :
        /\ objs' = [o \in ObjIds |-> IF o \in Range(modules)
                                     THEN moduleLoadConfig(objs[o], doc)
                                     ELSE objs[o]]
        /\ last' = Op("config", nullptr, TRUE, <<>>, <<>>, {}, FALSE)
        /\ Document
        /\ UNCHANGED <<modules, wifiConnectedLast, tasks, regTasks, regQueues>>
        /\ UNCHANGED <<engineVars, rtosVars, concVars>>

\* ------------------------------------------- configuration engine: actions
\* the record of an engine operation: its name, the flag it returned, the
\* validation result it computed, the document it was given, the document it
\* produced, and what became of the backup it attempted ("none" when it
\* attempted none)
CmOp(op, ret, result, doc, out, backup) ==
    [op |-> op, ret |-> ret, result |-> result, doc |-> doc, out |-> out,
     backup |-> backup]

\* a loadConfiguration that parses into the current document
loadConfigurationInPlace(config, version, file) ==
    LET f == loadConfigFromFile(file)
        result == validateConfiguration(f.doc)
        m == IF getConfigVersion(f.doc) # version
             THEN migrateConfiguration(f.doc, version)
             ELSE [ret |-> TRUE, doc |-> f.doc]
    IN  IF f.ret /\ result = CONFIG_VALID /\ m.ret
        THEN [ret |-> TRUE, config |-> m.doc, version |-> getConfigVersion(m.doc),
              result |-> result]
        ELSE [ret |-> FALSE, config |-> f.doc, version |-> version,
              result |-> IF f.ret THEN result ELSE "none"]

\* a loadConfiguration that installs the document as parsed, unmigrated
loadConfigurationUnmigrated(config, version, file) ==
    LET f == loadConfigFromFile(file)
        result == validateConfiguration(f.doc)
    IN  IF f.ret /\ result = CONFIG_VALID
        THEN [ret |-> TRUE, config |-> f.doc, version |-> getConfigVersion(f.doc),
              result |-> result]
        ELSE [ret |-> FALSE, config |-> config, version |-> version,
              result |-> IF f.ret THEN result ELSE "none"]

\* ConfigManager::loadConfiguration(path) on an initialised engine: returns the
\* flag, the current document and the current version after the call
loadConfiguration(config, version, file) ==
    LET f == loadConfigFromFile(file)
        result == validateConfiguration(f.doc)
        m == IF getConfigVersion(f.doc) # version
             THEN migrateConfiguration(f.doc, version)
             ELSE [ret |-> TRUE, doc |-> f.doc]
    IN  IF f.ret /\ result = CONFIG_VALID /\ m.ret
        THEN [ret |-> TRUE, config |-> m.doc, version |-> getConfigVersion(m.doc),
              result |-> result]
        ELSE [ret |-> FALSE, config |-> config, version |-> version,
              result |-> IF f.ret THEN result ELSE "none"]

\* ConfigManager::saveConfiguration(path) on an initialised engine: bk and wr
\* are the outcomes of the filesystem for the backup and for the file
saveConfiguration(config, version, file, dir, timestamp, bk, wr) ==
    LET result == validateConfiguration(config)
        b == createBackup(dir, config, version, timestamp, "auto_backup_before_save", bk)
        w == saveConfigToFile(file, config, wr)
    IN  IF result # CONFIG_VALID
        THEN [ret |-> FALSE, file |-> file, dir |-> dir, result |-> result,
              backup |-> "none"]
        ELSE [ret |-> w.ret, file |-> w.file, dir |-> b.dir, result |-> result,
              backup |-> IF b.ret THEN "written" ELSE "failed"]

\* ConfigManager::loadConfiguration()
LoadConfiguration ==
    LET r == loadConfiguration(currentConfig, currentVersion, configFile)
    IN  /\ currentConfig' = r.config
        /\ currentVersion' = r.version
        /\ cmLast' = CmOp("load", r.ret, r.result, loadConfigFromFile(configFile).doc,
                          r.config, "none")
        /\ UNCHANGED <<configFile, backupDir, millis>>
        /\ UNCHANGED <<lifecycleVars, rtosVars, concVars>>

\* ConfigManager::saveConfiguration(); bks and wrs are what the filesystem may
\* do with the backup and with the file
SaveConfiguration(bks, wrs) ==
    \E bk \in bks, wr \in wrs :
        LET r == saveConfiguration(currentConfig, currentVersion, configFile,
                                   backupDir, millis, bk, wr)
        IN  /\ Cardinality(DOMAIN r.dir) <= MaxBackups
            /\ configFile' = r.file
            /\ backupDir' = r.dir
            /\ cmLast' = CmOp("save", r.ret, r.result, currentConfig, currentConfig,
                              r.backup)
            /\ UNCHANGED <<currentConfig, currentVersion, millis>>
            /\ UNCHANGED <<lifecycleVars, rtosVars, concVars>>

\* ConfigManager::createBackup(description), called with "manual_backup" by the
\* CLI and with no description by the HTTP API
CreateBackup(description, bks) ==
    \E bk \in bks :
        LET b == createBackup(backupDir, currentConfig, currentVersion, millis,
                              description, bk)
        IN  /\ Cardinality(DOMAIN b.dir) <= MaxBackups
            /\ backupDir' = b.dir
            /\ cmLast' = CmOp("backup", b.ret, "none", currentConfig, currentConfig,
                              IF b.ret THEN "written" ELSE "failed")
            /\ UNCHANGED <<currentConfig, currentVersion, configFile, millis>>
            /\ UNCHANGED <<lifecycleVars, rtosVars, concVars>>

\* a restoreFromBackup that installs the snapshot without validating it
RestoreFromBackupUnvalidated(name) ==
    LET f == loadConfigFromFile(fileAt(backupDir, name))
        configDoc == IF containsKey(f.doc, "config") THEN f.doc.v["config"] ELSE f.doc
    IN  /\ currentConfig' = IF f.ret THEN configDoc ELSE currentConfig
        /\ currentVersion' = IF f.ret THEN getConfigVersion(configDoc) ELSE currentVersion
        /\ cmLast' = CmOp("restore", f.ret, "none", configDoc, currentConfig', "none")
        /\ UNCHANGED <<configFile, backupDir, millis>>
        /\ UNCHANGED <<lifecycleVars, rtosVars, concVars>>

\* ConfigManager::restoreFromBackup(backupFile)
RestoreFromBackup(name) ==
    LET f == loadConfigFromFile(fileAt(backupDir, name))
        configDoc == IF containsKey(f.doc, "config") THEN f.doc.v["config"] ELSE f.doc
        result == validateConfiguration(configDoc)
        ok == f.ret /\ result = CONFIG_VALID
    IN  /\ currentConfig' = IF ok THEN configDoc ELSE currentConfig
        /\ currentVersion' = IF ok THEN getConfigVersion(configDoc) ELSE currentVersion
        /\ cmLast' = CmOp("restore", ok, IF f.ret THEN result ELSE "none", configDoc,
                          currentConfig', "none")
        /\ UNCHANGED <<configFile, backupDir, millis>>
        /\ UNCHANGED <<lifecycleVars, rtosVars, concVars>>

\* CONTROL_FS::saveGlobalConfig(doc): the document is copied into the current
\* one, validated, and saved
SaveGlobalConfig(doc, bks, wrs) ==
    \E bk \in bks, wr \in wrs :
        LET r == saveConfiguration(doc, currentVersion, configFile, backupDir,
                                   millis, bk, wr)
        IN  /\ Cardinality(DOMAIN r.dir) <= MaxBackups
            /\ currentConfig' = doc
            /\ configFile' = r.file
            /\ backupDir' = r.dir
            /\ cmLast' = CmOp("save_global", r.ret, r.result, doc, doc, r.backup)
            /\ UNCHANGED <<currentVersion, millis>>
            /\ UNCHANGED <<lifecycleVars, rtosVars, concVars>>

\* Module::getStatus of the registered modules under their names, the document
\* ModuleManager::saveGlobalConfig builds
statusDoc(os, ms) ==
    JsonObject([name \in {os[o].cls : o \in Range(ms)} |->
        LET o == getModule(ms, os, name)
        IN  JsonObject([module |-> JsonString(name),
                        state |-> JsonString(IF os[o].state = MODULE_ENABLED
                                             THEN "enabled" ELSE "disabled"),
                        priority |-> JsonInt(os[o].priority),
                        autoStart |-> JsonBool(os[o].autoStart)])])

\* ModuleManager::saveGlobalConfig
ManagerSaveGlobalConfig(bks, wrs) ==
    IF getModule(modules, objs, FS) = nullptr
    THEN /\ cmLast' = CmOp("save_global", FALSE, "none", JsonNull, JsonNull, "none")
         /\ UNCHANGED <<currentConfig, currentVersion, configFile, backupDir, millis>>
         /\ UNCHANGED <<lifecycleVars, rtosVars, concVars>>
    ELSE SaveGlobalConfig(statusDoc(objs, modules), bks, wrs)

\* CONTROL_FS::writeFile and CONTROL_FS::deleteFile on the configuration file:
\* a document, a text that is no JSON, or no file
UploadConfig(file) ==
    /\ configFile' = file
    /\ cmLast' = CmOp("upload", TRUE, "none", file.json, file.json, "none")
    /\ UNCHANGED <<currentConfig, currentVersion, backupDir, millis>>
    /\ UNCHANGED <<lifecycleVars, rtosVars, concVars>>

\* millis() moves on; the counter is an unsigned long that wraps round to 0,
\* as it does at 2^32 and at every boot
Tick ==
    /\ millis' = (millis + 1) % (MaxMillis + 1)
    /\ cmLast' = CmOp("tick", TRUE, "none", JsonNull, JsonNull, "none")
    /\ UNCHANGED <<currentConfig, currentVersion, configFile, backupDir>>
    /\ UNCHANGED <<lifecycleVars, rtosVars, concVars>>

\* ConfigManager::setConfigValue(path, value)
SetConfigValue(path, value) ==
    LET r == setNestedValue(currentConfig, path, value)
    IN  /\ currentConfig' = r.doc
        /\ cmLast' = CmOp("set", r.ret, "none", [path |-> path, value |-> value],
                          JsonNull, "none")
        /\ UNCHANGED <<currentVersion, configFile, backupDir, millis>>
        /\ UNCHANGED <<lifecycleVars, rtosVars, concVars>>

\* ConfigManager::getConfigValue(path, value)
GetConfigValue(path) ==
    LET r == getConfigValue(currentConfig, path)
    IN  /\ cmLast' = CmOp("get", r.ret, "none", [path |-> path, value |-> JsonNull],
                          r.value, "none")
        /\ UNCHANGED <<currentConfig, currentVersion, configFile, backupDir, millis>>
        /\ UNCHANGED <<lifecycleVars, rtosVars, concVars>>

\* ConfigManager::validateConfiguration(doc)
ValidateConfiguration(doc) ==
    /\ cmLast' = CmOp("validate", TRUE, validateConfiguration(doc), doc, doc, "none")
    /\ UNCHANGED <<currentConfig, currentVersion, configFile, backupDir, millis>>
    /\ UNCHANGED <<lifecycleVars, rtosVars, concVars>>

\* ConfigManager::migrateConfiguration(doc, CONFIG_VERSION_CURRENT)
MigrateConfiguration(doc) ==
    LET m == migrateConfiguration(doc, CONFIG_VERSION_CURRENT)
    IN  /\ cmLast' = CmOp("migrate", m.ret, "none", doc, m.doc, "none")
        /\ UNCHANGED <<currentConfig, currentVersion, configFile, backupDir, millis>>
        /\ UNCHANGED <<lifecycleVars, rtosVars, concVars>>

\* ------------------------------------------------------- message queues: actions
\* the envelopes not yet allocated, and the one the next new returns
freeIds == {i \in MsgIds : heap[i].state = "free"}
newId == CHOOSE i \in freeIds : \A j \in freeIds : i <= j

SendTimeouts == {portMAX_DELAY, "pdMS_TO_TICKS(send_timeout_ms)"}

BusOp(op, who, queue, msg, ret) ==
    [op |-> op, who |-> who, queue |-> queue, msg |-> msg, ret |-> ret]

\* a send with portMAX_DELAY on a full queue keeps its caller waiting
blocks(queue, timeout) ==
    timeout = portMAX_DELAY /\ Len(queue.items) >= queue.length

\* ModuleManager::ensureModuleQueue: the QueueBase of a module is built from its
\* QueueConfig, QueueBase::create makes the queue and registers it by the
\* owner's name
Create(owner, length, timeout) ==
    /\ ~msgQueues[owner].created
    /\ msgQueues' = [msgQueues EXCEPT ![owner] =
                        [created |-> TRUE, length |-> length,
                         sendTimeoutTicks |-> timeout, items |-> <<>>]]
    /\ busLast' = BusOp("create", owner, owner, 0, "true")
    /\ UNCHANGED <<heap, received, wd, lifecycleVars, engineVars, concVars>>

\* a sender (CONTROL_RADAR::update, CONTROL_FS::auditFileSystem, setup) that
\* found the queue of CONTROL_LCD allocates an envelope with its variable bag and
\* calls QueueBase::send; it does not look at what send returns
Send(m) ==
    /\ msgQueues[LCD].created
    /\ freeIds # {}
    /\ ~blocks(msgQueues[LCD], msgQueues[LCD].sendTimeoutTicks)
    /\ LET id == newId
           r == send(msgQueues[LCD], id)
       IN /\ msgQueues' = [msgQueues EXCEPT ![LCD].items = r.items]
          /\ heap' = [heap EXCEPT ![id] =
                         [m EXCEPT !.state = IF r.ret THEN "queued" ELSE "lost"]]
          /\ busLast' = BusOp("send", m.fromQueue, LCD, id,
                              IF r.ret THEN "true" ELSE "false")
    /\ UNCHANGED <<received, wd, lifecycleVars, engineVars, concVars>>

\* CONTROL_LCD::update: QueueBase::receive, the display of the envelope, and the
\* delete of the variable bag and of the envelope
LcdUpdate ==
    /\ msgQueues[LCD].created
    /\ IF msgQueues[LCD].items = <<>>
       THEN /\ busLast' = BusOp("receive", LCD, LCD, 0, "false")
            /\ UNCHANGED <<msgQueues, heap, received>>
       ELSE LET id == Head(msgQueues[LCD].items)
            IN /\ msgQueues' = [msgQueues EXCEPT ![LCD].items = Tail(@)]
               /\ heap' = [heap EXCEPT ![id].state = "released"]
               /\ received' = [received EXCEPT ![LCD] = Append(@, id)]
               /\ busLast' = BusOp("receive", LCD, LCD, id, "true")
    /\ UNCHANGED <<wd, lifecycleVars, engineVars, concVars>>

\* a module answers the request at the head of its queue: QueueBase::receive,
\* QueueBase::RECEIVE_RETURN_CALL_FUNC on the request, and the delete of the
\* request. RECEIVE_RETURN_CALL_FUNC returns nothing and does not look at what
\* xQueueSend returns
ReceiveReturnCallFunc(R) ==
    /\ msgQueues[R].created
    /\ msgQueues[R].items # <<>>
    /\ LET id == Head(msgQueues[R].items)
           incoming == heap[id]
           toId == incoming.fromQueue
           popped == [msgQueues EXCEPT ![R].items = Tail(@)]
           toH == IF toId \in QueueOwners /\ popped[toId].created
                  THEN toId ELSE "nullptr"
       IN /\ received' = [received EXCEPT ![R] = Append(@, id)]
          /\ IF toH = "nullptr"
             THEN /\ msgQueues' = popped
                  /\ heap' = [heap EXCEPT ![id].state = "released"]
                  /\ busLast' = BusOp("return", R, toId, 0, "void")
             ELSE /\ freeIds # {}
                  /\ ~blocks(popped[toH], msgQueues[R].sendTimeoutTicks)
                  /\ LET rid == newId
                         r == xQueueSend(popped[toH], rid)
                     IN /\ msgQueues' = [popped EXCEPT ![toH].items = r.items]
                        /\ heap' = [heap EXCEPT
                              ![id].state = "released",
                              ![rid] = [response(incoming, R) EXCEPT
                                  !.state = IF r.ret THEN "queued" ELSE "lost"]]
                        /\ busLast' = BusOp("return", R, toId, rid, "void")
    /\ UNCHANGED <<wd, lifecycleVars, engineVars, concVars>>

NextQueues ==
    \/ \E owner \in QueueOwners, length \in 1..MaxQueueLength, timeout \in SendTimeouts :
          Create(owner, length, timeout)
    \/ \E m \in SenderMessages : Send(m)
    \/ LcdUpdate
    \/ \E R \in QueueOwners : ReceiveReturnCallFunc(R)

SpecQueues == Init /\ [][NextQueues]_vars

\* ------------------------------------------------------------ watchdog: actions
\* every operation below runs on a system that has not been reset
WdStep(w, op) ==
    /\ wd.reset = "none"
    /\ wd' = [w EXCEPT !.op = op]
    /\ UNCHANGED <<msgQueues, heap, received, busLast, lifecycleVars, engineVars, concVars>>

\* WatchdogManager::initialize: esp_task_wdt_init(systemTimeout / 1000, true)
\* and the auto-reload timer, created dormant
Initialize ==
    /\ ~wd.initialized
    /\ WdStep([wd EXCEPT !.initialized = TRUE], "initialize")

\* WatchdogManager::startSystemWatchdog: xTimerStart
StartSystemWatchdog ==
    /\ wd.initialized
    /\ WdStep([wd EXCEPT !.timerActive = TRUE, !.timerLeft = SystemTimeout], "start")

\* WatchdogManager::stopSystemWatchdog: xTimerStop
StopSystemWatchdog ==
    /\ wd.initialized
    /\ wd.timerActive
    /\ WdStep([wd EXCEPT !.timerActive = FALSE], "stop")

\* a task or the loop calls WatchdogManager::feedSystemWatchdog
FeedSystemWatchdog(caller) ==
    /\ wd.initialized
    /\ caller \notin wd.stalled
    /\ WdStep(feedSystemWatchdog(wd, caller), "feed_system")

\* WatchdogManager::addTaskToWatchdog for a task not yet subscribed
AddTaskToWatchdog(task) ==
    /\ wd.initialized
    /\ task \notin wd.subscribed
    /\ WdStep(addTaskToWatchdog(wd, task), "add_task")

\* WatchdogManager::removeTaskFromWatchdog: esp_task_wdt_delete
RemoveTaskFromWatchdog(task) ==
    /\ wd.initialized
    /\ task \in wd.subscribed
    /\ WdStep([wd EXCEPT !.subscribed = @ \ {task}], "remove_task")

\* TaskBase::feedWatchdog in the loop of a task: WatchdogManager::feedTaskWatchdog
FeedWatchdog(task) ==
    /\ wd.initialized
    /\ task \notin wd.stalled
    /\ WdStep(feedTaskWatchdog(wd, task), "feed_task")

\* a task stops running its loop
Stall(task) ==
    /\ wd.initialized
    /\ task \notin wd.stalled
    /\ WdStep([wd EXCEPT !.stalled = @ \cup {task}], "stall")

\* one tick of the clock. When the period of the timer ends
\* systemTimerCallback runs onSystemTimeout, which calls esp_restart; when a
\* subscribed task has not reset the task watchdog for its timeout the task
\* watchdog panics and the chip restarts; when both end in the same tick either
\* comes first
WdTick ==
    LET e == elapse(wd)
        timerEnds == wd.timerActive /\ e.timerLeft = 0
        taskEnds == Starved(wd) # {}
    IN \/ /\ timerEnds
          /\ WdStep([e EXCEPT !.reset = "on_system_timeout"], "tick")
       \/ /\ taskEnds
          /\ WdStep([e EXCEPT !.reset = "task_wdt_panic"], "tick")
       \/ /\ ~timerEnds /\ ~taskEnds
          /\ WdStep(e, "tick")

NextWatchdog ==
    \/ Initialize
    \/ StartSystemWatchdog
    \/ StopSystemWatchdog
    \/ \E caller \in WdTasks \cup {LoopTask} : FeedSystemWatchdog(caller)
    \/ \E task \in WdTasks : AddTaskToWatchdog(task)
    \/ \E task \in WdTasks : RemoveTaskFromWatchdog(task)
    \/ \E task \in WdTasks : FeedWatchdog(task)
    \/ \E task \in WdTasks : Stall(task)
    \/ WdTick

SpecWatchdog == Init /\ [][NextWatchdog]_vars

\* the clock keeps ticking
SpecWatchdogFair == SpecWatchdog /\ WF_vars(WdTick)

\* ------------------------------------------------------ tasks and locks: actions
\* the frame a task is in and the step it is at
Top(t) == stacks[t][Len(stacks[t])]
At(t) ==
    IF stacks[t] = <<>> \/ Top(t).pc > Len(Code(Top(t).fn))
    THEN Ins("none", "", "")
    ELSE Code(Top(t).fn)[Top(t).pc]

Advanced(t) == [stacks[t] EXCEPT ![Len(stacks[t])].pc = @ + 1]
Returned(t) == SubSeq(stacks[t], 1, Len(stacks[t]) - 1)

\* CONTROL_FS::init: fsInitialized = true and xSemaphoreCreateMutex
CreateMutex ==
    /\ fsMutex = "nullptr"
    /\ fsMutex' = "free"
    /\ UNCHANGED <<stacks, modState, globalConfig, fnVars, lifecycleVars, engineVars, rtosVars>>

\* a task that is in no call calls one of its functions; the operations of
\* CONTROL_FS and of the configuration engine exist once init() has run
Call(t, fn) ==
    /\ stacks[t] = <<>>
    /\ fsMutex # "nullptr"
    /\ stacks' = [stacks EXCEPT ![t] = <<Frame(fn, 1)>>]
    /\ UNCHANGED <<fsMutex, modState, globalConfig, fnVars, lifecycleVars, engineVars, rtosVars>>

\* the next step of a task. xSemaphoreTake(fsMutex, portMAX_DELAY) waits while
\* any task holds the mutex, the caller included: the mutex of
\* xSemaphoreCreateMutex is not recursive
Step(t) ==
    /\ stacks[t] # <<>>
    /\ CASE At(t).k = "none" ->
              /\ stacks' = [stacks EXCEPT ![t] = Returned(t)]
              /\ UNCHANGED fsMutex
         [] At(t).k = "take" ->
              /\ fsMutex = "free"
              /\ fsMutex' = t
              /\ stacks' = [stacks EXCEPT ![t] = Advanced(t)]
         [] At(t).k = "give" ->
              /\ fsMutex' = "free"
              /\ stacks' = [stacks EXCEPT ![t] = Advanced(t)]
         [] At(t).k = "call" ->
              /\ stacks' = [stacks EXCEPT ![t] = Append(Advanced(t), Frame(At(t).f, 1))]
              /\ UNCHANGED fsMutex
         [] At(t).k = "guard" ->
              /\ stacks' = [stacks EXCEPT ![t] =
                               IF modState[At(t).m] = MODULE_ENABLED
                               THEN Advanced(t) ELSE Returned(t)]
              /\ UNCHANGED fsMutex
         [] At(t).k = "skipUnless" ->
              /\ stacks' = [stacks EXCEPT ![t][Len(stacks[t])].pc =
                               IF modState[At(t).m] = MODULE_ENABLED
                               THEN @ + 1 ELSE @ + 2]
              /\ UNCHANGED fsMutex
         [] OTHER ->
              /\ stacks' = [stacks EXCEPT ![t] = Advanced(t)]
              /\ UNCHANGED fsMutex
    /\ UNCHANGED <<modState, globalConfig, fnVars, lifecycleVars, engineVars, rtosVars>>

\* CONTROL_WEB::handleAPIModuleControl in the task of CONTROL_WEB, between
\* two of its own calls: stop() and start() of CONTROL_LCD set its state
StopModule(m) ==
    /\ \E t \in Workers : stacks[t] = <<>>
    /\ fsMutex # "nullptr"
    /\ modState[m] = MODULE_ENABLED
    /\ modState' = [modState EXCEPT ![m] = MODULE_DISABLED]
    /\ UNCHANGED <<fsMutex, stacks, globalConfig, fnVars, lifecycleVars, engineVars, rtosVars>>

StartModule(m) ==
    /\ \E t \in Workers : stacks[t] = <<>>
    /\ fsMutex # "nullptr"
    /\ modState[m] = MODULE_DISABLED
    /\ modState' = [modState EXCEPT ![m] = MODULE_ENABLED]
    /\ UNCHANGED <<fsMutex, stacks, globalConfig, fnVars, lifecycleVars, engineVars, rtosVars>>

NextTasks ==
    \/ CreateMutex
    \/ \E t \in Tasks, fn \in FsOperations \cup {"log", "saveConfigToFile",
                   "loadConfigFromFile", "renderLoadingStep", "updateModules", "runner"} :
          fn \in Entry(t) /\ Call(t, fn)
    \/ \E t \in Tasks : Step(t)
    \/ StopModule(LCD)
    \/ StartModule(LCD)

SpecTasks == Init /\ [][NextTasks]_vars

\* a task that can take a step takes it: the scheduler runs every ready task,
\* and a given mutex goes to a task that waits for it
SpecTasksFair == SpecTasks /\ \A t \in Tasks : SF_vars(Step(t))

\* ------------------------------------------------------------ specifications
\* the order in which setup() constructs and registers the modules
SetupOrder == <<FS, WIFI, LCD, SERIAL, WEB, RADAR>>

RECURSIVE setupRegister(_, _, _)
setupRegister(os, ms, i) ==
    IF i > Len(SetupOrder)
    THEN [objs |-> os, modules |-> ms]
    ELSE IF SetupOrder[i] \in Classes
    THEN setupRegister([os EXCEPT ![Len(ms) + 1] = NewModule(SetupOrder[i])],
                       Append(ms, Len(ms) + 1), i + 1)
    ELSE setupRegister(os, ms, i + 1)

\* the state when setup() has registered its modules and is about to call
\* initModules()
InitRegistered ==
    LET r == setupRegister([o \in ObjIds |-> NoModule], <<>>, 1)
    IN  /\ objs = r.objs
        /\ modules = r.modules
        /\ wifiConnectedLast = FALSE
        /\ tasks = [o \in ObjIds |-> "none"]
        /\ regTasks = [c \in Classes |-> nullptr]
        /\ regQueues = [c \in Classes |-> nullptr]
        /\ last = Op("boot", nullptr, TRUE, <<>>, <<>>, {}, FALSE)
        /\ requests = [cmd |-> 0, cfg |-> 0]
        /\ InitEngine

\* the configuration documents that set a state or a WiFi mode
StateDocs == ConfigDocs({e \in ConfigEntries : e.has \cap {"state", "mode"} # {}})

\* the lifecycle of the registered modules
Next ==
    \/ InitModules
    \/ StartModules(RtosOk)
    \/ StopModules
    \/ UpdateModules
    \/ \E o \in ObjIds : TaskRun(o)
    \/ \E c \in Classes : CommandStart(c)
    \/ \E c \in Classes, viaCli \in BOOLEAN : CommandStop(c, viaCli)
    \/ \E c \in Classes : CommandRestart(c)
    \/ \E c \in Classes, on \in BOOLEAN : CommandEnable(c, on)
    \/ \E c \in Classes, on \in BOOLEAN : CommandAutostart(c, on)
    \/ ApplyConfig(StateDocs)

Spec == InitRegistered /\ [][Next]_vars

\* the configuration documents that set the flags startModules reads
BootDocs ==
    ConfigDocs({e \in ConfigEntries :
        e.has \cap {"autoStart", "critical", "task.enabled", "queue.enabled"} # {}})

\* setup() and loop(): the configuration, the two boot passes and the updates
NextBoot ==
    \/ ApplyConfig(BootDocs)
    \/ InitModules
    \/ StartModules(RtosOk)
    \/ UpdateModules
    \/ \E o \in ObjIds : TaskRun(o)

SpecBoot == InitRegistered /\ [][NextBoot]_vars

\* the configuration documents that set a priority
PriorityDocs == ConfigDocs({e \in ConfigEntries : "priority" \in e.has})

\* the module settings a stored global configuration may hold
SetupDocs == BootDocs \cup PriorityDocs

\* setup() has registered its modules and is about to call initModules(); the
\* flash holds a global configuration from an earlier run
InitSetup ==
    LET r == setupRegister([o \in ObjIds |-> NoModule], <<>>, 1)
    IN  /\ objs = r.objs
        /\ modules = r.modules
        /\ wifiConnectedLast = FALSE
        /\ tasks = [o \in ObjIds |-> "none"]
        /\ regTasks = [c \in Classes |-> nullptr]
        /\ regQueues = [c \in Classes |-> nullptr]
        /\ last = Op("boot", nullptr, TRUE, <<>>, <<>>, {}, FALSE)
        /\ requests = [cmd |-> 0, cfg |-> 0]
        /\ InitEngineOnly
        /\ InitBus
        /\ InitTasks
        /\ InitFunctions
        /\ globalConfig \in SetupDocs

\* ModuleManager::loadGlobalConfig, which the console and the HTTP handlers
\* call once the modules run: applyConfig hands the stored configuration to
\* every module
LoadGlobalConfig ==
    /\ last.op # "boot"
    /\ objs' = [o \in ObjIds |-> IF o \in Range(modules)
                                 THEN moduleLoadConfig(objs[o], globalConfig)
                                 ELSE objs[o]]
    /\ last' = Op("config", nullptr, TRUE, <<>>, <<>>, {}, FALSE)
    /\ UNCHANGED <<modules, wifiConnectedLast, tasks, regTasks, regQueues, requests>>
    /\ UNCHANGED <<engineVars, rtosVars, concVars>>

\* setup() and the configuration reload of the console
NextSetup ==
    \/ InitModules
    \/ StartModules(RtosOk)
    \/ LoadGlobalConfig

SpecSetup == InitSetup /\ [][NextSetup]_vars

\* ---- a sender inside its update() and the stop of the receiver ----

\* CONTROL_RADAR::update up to its send: CONTROL_LCD is enabled and has a
\* queue, the envelope and its variable bag are allocated
RadarUpdateBegin(speed) ==
    /\ modState[LCD] = MODULE_ENABLED
    /\ msgQueues[LCD].created
    /\ freeIds # {}
    /\ \A i \in MsgIds : heap[i].state # "sender"
    /\ heap' = [heap EXCEPT ![newId] = radarMessage(speed)]
    /\ busLast' = BusOp("update", RADAR, LCD, newId, "pending")
    /\ UNCHANGED <<msgQueues, received, wd, lifecycleVars, engineVars, concVars>>

\* the qb->send(msg) of that update() and its return: xQueueSend with the
\* send timeout of the queue returns when there is room or when the timeout
\* elapses, and waits while the queue is full and the timeout is portMAX_DELAY
RadarUpdateSend ==
    \E id \in MsgIds :
        /\ heap[id].state = "sender"
        /\ ~blocks(msgQueues[LCD], msgQueues[LCD].sendTimeoutTicks)
        /\ LET r == send(msgQueues[LCD], id)
           IN /\ msgQueues' = [msgQueues EXCEPT ![LCD].items = r.items]
              /\ heap' = [heap EXCEPT ![id].state = IF r.ret THEN "queued" ELSE "lost"]
              /\ busLast' = BusOp("send", RADAR, LCD, id,
                                  IF r.ret THEN "true" ELSE "false")
        /\ UNCHANGED <<received, wd, lifecycleVars, engineVars, concVars>>

\* one turn of the runner of the task of CONTROL_LCD: update() when the module
\* is enabled
LcdRun ==
    /\ modState[LCD] = MODULE_ENABLED
    /\ LcdUpdate

NextSend ==
    \/ CreateMutex
    \/ \E length \in 1..MaxQueueLength, timeout \in SendTimeouts :
          Create(LCD, length, timeout)
    \/ \E speed \in {0, 5} : RadarUpdateBegin(speed)
    \/ RadarUpdateSend
    \/ LcdRun
    \/ StopModule(LCD)
    \/ StartModule(LCD)

SpecSend == Init /\ [][NextSend]_vars

\* the scheduler runs every task that is ready: the sender when its send can
\* return, the task of CONTROL_LCD whenever the module is enabled again
SpecSendFair == SpecSend /\ WF_vars(RadarUpdateSend) /\ SF_vars(LcdRun)

\* ---- the function registry (ModuleRegistry::Functions) ----

\* enum FunctionsCallType
NAME == 0
POINTER == 1
DYNAMIC == 2
EVAL == 3

\* the debug switch of ModuleRegistry.h: 1 compiles the Serial output out
MODULE_REGISTRY_NO_DEBUG == 1

\* the module and function names in use; CONTROL_NONE is no registered module
FnModules == {WEB, "CONTROL_NONE"}
FnNames == {"web_status", "web_restart"}
FnKeys == {<<WEB, "web_status">>, <<WEB, "web_restart">>, <<"CONTROL_NONE", "web_status">>}

\* the std::function objects in use: empty, or a closure returning true or false
FnClosures == {"null", "returnsTrue"}

FunctionEntry(moduleName, functionName, handleName, callType, func, evalCode) ==
    [moduleName |-> moduleName, functionName |-> functionName,
     handleName |-> handleName, callType |-> callType, func |-> func,
     evalCode |-> evalCode]

\* FunctionEntry{}: empty strings, the first enumerator, an empty std::function
EmptyEntry == FunctionEntry("", "", "", 0, "null", "")

\* moduleName + ":" + functionName; the names in use hold no colon, so the
\* pair stands for the joined string
keyOf(moduleName, functionName) == <<moduleName, functionName>>

has(key) == key \in DOMAIN entries_

get(key) == IF key \in DOMAIN entries_ THEN entries_[key] ELSE EmptyEntry

\* Module::callFunctionByName, which no module of the firmware overrides
callFunctionByName(name) == FALSE

FnOp(op, moduleName, functionName, ret, invoked) ==
    [op |-> op, moduleName |-> moduleName, functionName |-> functionName,
     registered |-> has(keyOf(moduleName, functionName)), ret |-> ret,
     invoked |-> invoked]

\* Functions::moduleNameFunctionRegister: the last writer wins
moduleNameFunctionRegister(moduleName, functionName, handleName, type, fn, evalCode) ==
    LET k == keyOf(moduleName, functionName)
        fe == FunctionEntry(moduleName, functionName, handleName, type, fn, evalCode)
    IN  /\ entries_' = [x \in DOMAIN entries_ \cup {k} |->
                           IF x = k THEN fe ELSE entries_[x]]
        /\ fnLast' = FnOp("register", moduleName, functionName, TRUE, "none")
        /\ UNCHANGED <<fsMutex, stacks, modState, globalConfig>>
        /\ UNCHANGED <<lifecycleVars, engineVars, rtosVars>>

\* registerFunctionName, registerFunctionPointer, registerFunctionDynamic and
\* registerFunctionEval
RegisterFunction(moduleName, functionName) ==
    \/ \E handleName \in {"", "handleStatus"} :
          moduleNameFunctionRegister(moduleName, functionName, handleName, NAME, "null", "")
    \/ \E fn \in FnClosures :
          moduleNameFunctionRegister(moduleName, functionName, "", POINTER, fn, "")
    \/ moduleNameFunctionRegister(moduleName, functionName, "", DYNAMIC, "returnsFalse", "")
    \/ moduleNameFunctionRegister(moduleName, functionName, "", EVAL, "null", "code")

\* unregisterFunction -> Functions::remove
UnregisterFunction(moduleName, functionName) ==
    LET k == keyOf(moduleName, functionName)
    IN  /\ entries_' = [x \in DOMAIN entries_ \ {k} |-> entries_[x]]
        /\ fnLast' = FnOp("unregister", moduleName, functionName, has(k), "none")
        /\ UNCHANGED <<fsMutex, stacks, modState, globalConfig>>
        /\ UNCHANGED <<lifecycleVars, engineVars, rtosVars>>

\* what Functions::moduleNameFunctionCall invokes and returns: the miss branch
\* exists only in a debug build; the entry is dispatched on its call type
moduleNameFunctionCall(moduleName, functionName) ==
    LET k == keyOf(moduleName, functionName)
        fe == get(k)
        mod == getModule(modules, objs, moduleName)
    IN  IF MODULE_REGISTRY_NO_DEBUG # 1 /\ ~has(k)
        THEN [ok |-> FALSE, invoked |-> "none"]
        ELSE IF fe.callType = NAME
        THEN IF mod # nullptr
             THEN [ok |-> callFunctionByName(IF fe.handleName # "" THEN fe.handleName
                                             ELSE functionName),
                   invoked |-> "callFunctionByName"]
             ELSE [ok |-> FALSE, invoked |-> "none"]
        ELSE IF fe.callType \in {POINTER, DYNAMIC}
        THEN IF fe.func # "null"
             THEN [ok |-> fe.func = "returnsTrue", invoked |-> "func"]
             ELSE [ok |-> FALSE, invoked |-> "none"]
        ELSE [ok |-> FALSE, invoked |-> "none"]

\* ModuleRegistry::callFunction
CallFunction(moduleName, functionName) ==
    LET r == moduleNameFunctionCall(moduleName, functionName)
    IN  /\ fnLast' = FnOp("call", moduleName, functionName, r.ok, r.invoked)
        /\ UNCHANGED <<entries_, fsMutex, stacks, modState, globalConfig>>
        /\ UNCHANGED <<lifecycleVars, engineVars, rtosVars>>

NextFunctions ==
    \/ \E m \in FnModules, f \in FnNames :
          <<m, f>> \in FnKeys /\ RegisterFunction(m, f)
    \/ \E m \in FnModules, f \in FnNames :
          <<m, f>> \in FnKeys /\ UnregisterFunction(m, f)
    \/ \E m \in FnModules, f \in FnNames :
          <<m, f>> \in FnKeys /\ CallFunction(m, f)

SpecFunctions == InitRegistered /\ [][NextFunctions]_vars

\* registration, removal and the boot order
NextReg ==
    \/ \E c \in Classes : RegisterModule(c)
    \/ RegisterNull
    \/ \E c \in Classes : UnregisterModule(c)
    \/ InitModules
    \/ StartModules(RtosOk)
    \/ \E o \in ObjIds : TaskRun(o)
    \/ ApplyConfig(PriorityDocs)

SpecReg == Init /\ [][NextReg]_vars

\* the files written to the configuration path from outside the engine
UploadFiles == {TextOf(d) : d \in InputDocs} \cup {PartOf(FullDoc("2.0.0")), NoFile}

\* the state when setup() has registered CONTROL_FS and its init() has created
\* and initialised the configuration engine
InitFsRegistered ==
    /\ InitEngine
    /\ objs = [o \in ObjIds |-> IF o = 1 THEN init(NewModule(FS), "ok").m ELSE NoModule]
    /\ modules = <<1>>
    /\ wifiConnectedLast = FALSE
    /\ tasks = [o \in ObjIds |-> "none"]
    /\ regTasks = [c \in Classes |-> nullptr]
    /\ regQueues = [c \in Classes |-> nullptr]
    /\ last = Op("init", nullptr, TRUE, <<1>>, <<>>, {}, FALSE)
    /\ requests = [cmd |-> 0, cfg |-> 0]

\* the configuration engine: its file and its document, loaded and saved on
\* a filesystem that may fail
NextConfig ==
    \/ \E file \in UploadFiles : UploadConfig(file)
    \/ LoadConfiguration
    \/ SaveConfiguration(FsOutcomes, FsOutcomes)
    \/ \E doc \in InputDocs : SaveGlobalConfig(doc, FsOutcomes, FsOutcomes)
    \/ ManagerSaveGlobalConfig(FsOutcomes, FsOutcomes)

SpecConfig == InitFsRegistered /\ [][NextConfig]_vars

\* the name of a backup file that was never written
NoBackupName == backupFilename(0, "0.9.0", "")

\* the backups: taken by hand and by saveConfiguration, listed and restored,
\* while the clock runs
NextBackup ==
    \/ \E doc \in {FullDoc("2.0.0"), FullDoc("1.0.0")} :
          SaveGlobalConfig(doc, {"ok"}, {"ok"})
    \/ SaveConfiguration({"ok", "open_fail"}, {"ok"})
    \/ CreateBackup("manual_backup", {"ok", "open_fail"})
    \/ CreateBackup("", {"ok", "write_partial"})
    \/ \E name \in (DOMAIN backupDir) \cup {NoBackupName} : RestoreFromBackup(name)
    \/ Tick

SpecBackup == InitFsRegistered /\ [][NextBackup]_vars

\* the paths given to setConfigValue and getConfigValue, split at the dots:
\* the paths of the tests, a path through the string "version", a path of two
\* missing parts, and the empty path
ValuePaths ==
    {<<"system", "debug">>, <<"system", "name">>,
     <<"modules", WIFI, "wifi", "ssid">>, <<"modules", WIFI, "state">>,
     <<"network", "dns">>, <<"version", "major">>, <<"name">>, <<>>}

\* the values given to setConfigValue
PathValues == {JsonString("TestWiFi"), JsonInt(5)}

\* the engine holds a loaded document
InitValues ==
    /\ objs = [o \in ObjIds |-> IF o = 1 THEN init(NewModule(FS), "ok").m ELSE NoModule]
    /\ modules = <<1>>
    /\ wifiConnectedLast = FALSE
    /\ tasks = [o \in ObjIds |-> "none"]
    /\ regTasks = [c \in Classes |-> nullptr]
    /\ regQueues = [c \in Classes |-> nullptr]
    /\ last = Op("init", nullptr, TRUE, <<1>>, <<>>, {}, FALSE)
    /\ requests = [cmd |-> 0, cfg |-> 0]
    /\ currentConfig \in {FullDoc("2.0.0"), Put(FullDoc("2.0.0"), "system", SystemOnlyDoc.v["system"])}
    /\ currentVersion = CONFIG_VERSION_CURRENT
    /\ configFile = TextOf(currentConfig)
    /\ backupDir = <<>>
    /\ millis = 0
    /\ cmLast = CmOp("load", TRUE, CONFIG_VALID, currentConfig, currentConfig, "none")
    /\ InitRtos

\* documents of two versions are saved, backed up, restored and loaded
NextRestore ==
    \/ \E doc \in {FullDoc("2.0.0"), FullDoc("1.0.0")} :
          SaveGlobalConfig(doc, {"ok"}, {"ok"})
    \/ CreateBackup("manual_backup", {"ok"})
    \/ \E name \in DOMAIN backupDir : RestoreFromBackup(name)
    \/ LoadConfiguration
    \/ Tick

SpecRestore == InitFsRegistered /\ [][NextRestore]_vars

\* values read and written by their paths; a path is written once
NextValues ==
    \/ \E path \in ValuePaths, value \in PathValues :
          /\ getNestedValueConst(currentConfig, path) \notin PathValues
          /\ SetConfigValue(path, value)
    \/ \E path \in ValuePaths : GetConfigValue(path)

SpecValues == InitValues /\ [][NextValues]_vars

\* a document of AllDocs is handed to the engine
InitDocs ==
    /\ objs = [o \in ObjIds |-> IF o = 1 THEN init(NewModule(FS), "ok").m ELSE NoModule]
    /\ modules = <<1>>
    /\ wifiConnectedLast = FALSE
    /\ tasks = [o \in ObjIds |-> "none"]
    /\ regTasks = [c \in Classes |-> nullptr]
    /\ regQueues = [c \in Classes |-> nullptr]
    /\ last = Op("init", nullptr, TRUE, <<1>>, <<>>, {}, FALSE)
    /\ requests = [cmd |-> 0, cfg |-> 0]
    /\ currentConfig = EmptyDoc
    /\ currentVersion = CONFIG_VERSION_CURRENT
    /\ configFile = NoFile
    /\ backupDir = <<>>
    /\ millis = 0
    /\ \E doc \in AllDocs :
          cmLast = CmOp("given", TRUE, "none", doc, doc, "none")
    /\ InitRtos

\* validation and migration of the document handed in
NextDocs ==
    \/ cmLast.op = "given" /\ ValidateConfiguration(cmLast.doc)
    \/ cmLast.op = "given" /\ MigrateConfiguration(cmLast.doc)

SpecDocs == InitDocs /\ [][NextDocs]_vars

Expected ==
    IF last'.op = "init"
    THEN modules'
    ELSE SelectSeq(modules,
                   LAMBDA o : objs[o].autoStart /\ objs[o].state = MODULE_ENABLED)

\* the modules the pass of the step visited
Visited == IF last'.op = "init" THEN last'.calls ELSE last'.sel

\* C2: in initModules and startModules, a critical module whose init() or
\* start() fails makes the pass return false at once, the modules after it
\* untouched; with no critical failure every module of the pass is visited,
\* each module that failed is in Error, and the pass returns true.
C2_CriticalAborts ==
    [][last'.op \in {"init", "start"} =>
        LET critFail == {o \in last'.failed : objs[o].critical}
        IN  IF critFail = {}
            THEN /\ last'.ret
                 /\ Visited = Expected
                 /\ \A o \in last'.failed : objs'[o].state = MODULE_ERROR
            ELSE /\ ~last'.ret
                 /\ \E k \in 1..Len(Expected) :
                       /\ Visited = SubSeq(Expected, 1, k)
                       /\ critFail = {Expected[k]}
                       /\ \A i \in (k + 1)..Len(Expected) :
                             /\ objs'[Expected[i]] = objs[Expected[i]]
                             /\ tasks'[Expected[i]] = tasks[Expected[i]]]_vars

\* a pass returned false on a critical module and left a later one unvisited
C2_Witness ==
    /\ last.op \in {"init", "start"}
    /\ ~last.ret
    /\ \E o \in last.failed : objs[o].critical
    /\ \E o \in Range(modules) :
          o \notin Range(last.calls) \cup Range(last.sel) /\ objs[o].autoStart
\* ------------------------------------------------------------ the boot order
\* C3: after initModules has sorted the vector every adjacent pair (a, b) of it
\* has priority(a) >= priority(b), and init() was called on the modules in
\* exactly that order (up to the critical module that made it return false),
\* whatever the order of registration.
C3_InitOrder ==
    last.op = "init" =>
        /\ \A i \in 1..(Len(modules) - 1) :
              objs[modules[i]].priority >= objs[modules[i + 1]].priority
        /\ last.calls = SubSeq(modules, 1, Len(last.calls))
        /\ last.ret => last.calls = modules

\* initModules called init() first on a module constructed after the second
C3_Witness ==
    /\ last.op = "init"
    /\ last.ret
    /\ Len(last.calls) = 2
    /\ last.calls[1] > last.calls[2]
    /\ objs[last.calls[1]].priority > objs[last.calls[2]].priority
\* the position of object o in the vector ms
Pos(ms, o) == Min({i \in DOMAIN ms : ms[i] = o})

\* C4: the sort of initModules is stable: two modules of equal priority keep,
\* in the sorted vector, the order they had in the vector before.
C4_StableSort ==
    [][last'.op = "init" =>
        \A i, j \in DOMAIN modules :
            (i < j /\ objs[modules[i]].priority = objs[modules[j]].priority)
                => Pos(modules', modules[i]) < Pos(modules', modules[j])]_vars
C7_FailureSetsError ==
    [][\A o \in last'.failed : objs'[o].state = MODULE_ERROR]_vars

\* ------------------------------------------------------------------- autostart
\* C8: after initModules and then startModules, no module whose autostart
\* flag is false is in Enabled.
C8_EnabledOnlyAutostart ==
    last.op = "start" =>
        \A o \in Range(modules) :
            objs[o].state = MODULE_ENABLED => objs[o].autoStart
\* ------------------------------------------------------------ startModules
\* whether CONTROL_WIFI, if registered, was connected when startModules came
\* to module o: start() of CONTROL_WIFI has run by then if it is selected and
\* stands before o in the vector
WifiConnectedAt(o) ==
    LET w == getModule(modules, objs, WIFI)
    IN  \/ w = nullptr
        \/ IF w \in Range(last'.sel) /\ Pos(modules, w) < Pos(modules, o)
           THEN objs'[w].isConnected
           ELSE objs[w].isConnected

C10_UnregisterTearsDown ==
    [][/\ ~last'.dangling
       /\ (last'.op = "unregister" /\ last'.ret) =>
             /\ last'.tgt \notin Range(modules')
             /\ tasks'[last'.tgt] = "none"
             /\ regTasks'[objs[last'.tgt].cls] = nullptr
             /\ regQueues'[objs[last'.tgt].cls] = nullptr]_vars
\* ------------------------------------------------------ configuration engine
\* the engine operations that call saveConfiguration
SaveOps == {"save", "save_global"}

\* C11: when loadConfiguration returns failure (no file, a file that does not
\* parse, a document that fails validation, a failed migration) the in-memory
\* document and the current version are what they were; when it returns
\* success the document of the file parsed and passed validation
C11_LoadFailureKeepsCurrent ==
    [][cmLast'.op = "load" =>
          /\ ~cmLast'.ret =>
                currentConfig' = currentConfig /\ currentVersion' = currentVersion
          /\ cmLast'.ret =>
                /\ loadConfigFromFile(configFile).ret
                /\ validateConfiguration(loadConfigFromFile(configFile).doc) = CONFIG_VALID
          /\ currentConfig' # currentConfig => cmLast'.ret]_vars

\* a load of a file that parses and fails validation, met by an engine that
\* holds a complete document
C11_Witness ==
    /\ cmLast.op = "load"
    /\ ~cmLast.ret
    /\ cmLast.result = CONFIG_INVALID_SCHEMA
    /\ currentConfig = FullDoc("2.0.0")
    /\ configFile = TextOf(SystemOnlyDoc)

\* C12: when saveConfiguration returns failure from the serialisation or the
\* write, the configuration file has the content it had before the call
C12_FailedSaveKeepsFile ==
    [][(cmLast'.op \in SaveOps /\ ~cmLast'.ret /\ cmLast'.result = CONFIG_VALID
        /\ configFile.kind = "text") =>
          configFile' = configFile]_vars

\* C13: when saveConfiguration changes the configuration file, the backup of
\* that call was written; when the backup failed the file is as it was
C13_BackupBeforeOverwrite ==
    [][(cmLast'.op \in SaveOps /\ configFile' # configFile) =>
          cmLast'.backup = "written"]_vars

\* the operations that attempt a backup: createBackup, and the saves
BackupOps == SaveOps \cup {"backup"}

\* C14: an operation that succeeds and wrote its backup leaves list_backups
\* with exactly one record more than before, and the record it added carries
\* the version of the in-memory document
C14_BackupAddsOneRecord ==
    [][(cmLast'.op \in BackupOps /\ cmLast'.ret /\ cmLast'.backup = "written") =>
          /\ Cardinality(listBackups(backupDir')) = Cardinality(listBackups(backupDir)) + 1
          /\ \E rec \in listBackups(backupDir') \ listBackups(backupDir) :
                rec.version = getConfigVersion(currentConfig')]_vars

\* C15: a save that fails validation leaves the backup directory, the
\* configuration file and the in-memory document as they were
C15_InvalidSaveHasNoEffect ==
    [][(cmLast'.op \in SaveOps /\ ~cmLast'.ret /\ cmLast'.result \notin {CONFIG_VALID, "none"}) =>
          /\ backupDir' = backupDir
          /\ configFile' = configFile
          /\ currentConfig' = currentConfig]_vars

\* C16: a load that follows a successful save leaves the in-memory document,
\* and its hash, as the save found them
C16_SaveLoadRoundTrip ==
    [][(cmLast.op \in SaveOps /\ cmLast.ret /\ cmLast'.op = "load") =>
          /\ currentConfig' = currentConfig
          /\ getConfigurationHash(currentConfig') = getConfigurationHash(currentConfig)]_vars

\* C16 as the engine has it: a successful load that follows a successful save
\* of D leaves D itself when D is at the engine's version and D migrated to
\* that version otherwise; a failed one leaves D
C16_SaveLoadMigrates ==
    [][(cmLast.op \in SaveOps /\ cmLast.ret /\ cmLast'.op = "load") =>
          /\ ~cmLast'.ret => currentConfig' = currentConfig
          /\ (cmLast'.ret /\ getConfigVersion(currentConfig) = currentVersion) =>
                /\ currentConfig' = currentConfig
                /\ getConfigurationHash(currentConfig') = getConfigurationHash(currentConfig)
          /\ (cmLast'.ret /\ getConfigVersion(currentConfig) # currentVersion) =>
                /\ currentConfig' = migrateConfiguration(currentConfig, currentVersion).doc
                /\ getConfigVersion(currentConfig') = currentVersion]_vars

\* a version-1.0.0 document saved in full and loaded back: the load migrated it
C16_Witness ==
    /\ cmLast.op = "load"
    /\ cmLast.ret
    /\ cmLast.doc = FullDoc("1.0.0")
    /\ configFile = TextOf(FullDoc("1.0.0"))
    /\ currentConfig # FullDoc("1.0.0")
    /\ getConfigVersion(currentConfig) = CONFIG_VERSION_CURRENT

\* the four checks of validation, each stated on the document alone
\* the version the engine reads lies in [min supported, current]
VersionInInterval(doc) ==
    LET v == chars(getConfigVersion(doc))
    IN  strLE(chars(CONFIG_VERSION_MIN_SUPPORTED), v) /\ strLE(v, chars(CONFIG_VERSION_CURRENT))

\* "version" is a string, "modules" an object, and every module under it has
\* a string state, an integer priority and a string version
SchemaShape(doc) ==
    /\ Member(doc, "version").t = "string"
    /\ Member(doc, "modules").t = "object"
    /\ \A name \in DOMAIN Member(doc, "modules").v :
          LET m == Member(doc, "modules").v[name]
          IN  /\ Member(m, "state").t = "string"
              /\ Member(m, "priority").t = "int"
              /\ Member(m, "version").t = "string"

\* every required path of the rule table leads to a value
RequiredPresent(doc) ==
    \A i \in DOMAIN validationRules :
        validationRules[i].required =>
            getNestedValueConst(doc, validationRules[i].path) # JsonNull

\* every value a rule of the table finds has the rule's type and, where the
\* rule lists values, is one of them
RuleValuesOk(doc) ==
    \A i \in DOMAIN validationRules :
        LET rule == validationRules[i]
            value == getNestedValueConst(doc, rule.path)
        IN  value # JsonNull =>
                /\ value.t = rule.type
                /\ rule.enumValues # {} => value.v \in rule.enumValues

C18_AnyModuleStateChecked ==
    (/\ cmLast.op = "validate"
     /\ VersionInInterval(cmLast.doc) /\ SchemaShape(cmLast.doc)
     /\ RequiredPresent(cmLast.doc)
     /\ \E name \in DOMAIN Member(cmLast.doc, "modules").v :
           asString(Member(Member(cmLast.doc, "modules").v[name], "state"))
               \notin validStates)
        => cmLast.result = CONFIG_INVALID_VALUE

BelowCurrent(doc) ==
    /\ getConfigVersion(doc) # CONFIG_VERSION_CURRENT
    /\ strLE(chars(getConfigVersion(doc)), chars(CONFIG_VERSION_CURRENT))

\* every key under before is under after, down to the values that are no
\* objects, which are equal
RECURSIVE Preserved(_, _)
Preserved(before, after) ==
    IF isObject(before)
    THEN /\ isObject(after)
         /\ \A k \in DOMAIN before.v :
               k \in DOMAIN after.v /\ Preserved(before.v[k], after.v[k])
    ELSE after = before

\* C20: migrating a document of a version below the current one succeeds,
\* gives a document at the current version, and keeps every key the document
\* had, "version" apart, under its path with its value
C20_MigrationPreservesKeys ==
    (cmLast.op = "migrate" /\ BelowCurrent(cmLast.doc)) =>
        /\ cmLast.ret
        /\ getConfigVersion(cmLast.out) = CONFIG_VERSION_CURRENT
        /\ isObject(cmLast.doc) =>
              \A k \in (DOMAIN cmLast.doc.v) \ {"version"} :
                  /\ containsKey(cmLast.out, k)
                  /\ Preserved(cmLast.doc.v[k], cmLast.out.v[k])

\* a version-1.0.0 document with the user's "system" and "backup_settings"
\* went through the three steps: "monitoring" and the modules' watchdogs
\* were added, the user's sections were not replaced
C20_Witness ==
    /\ cmLast.op = "migrate"
    /\ getConfigVersion(cmLast.doc) = "1.0.0"
    /\ containsKey(cmLast.doc, "system")
    /\ containsKey(cmLast.doc, "backup_settings")
    /\ containsKey(cmLast.out, "monitoring")
    /\ ~containsKey(cmLast.doc, "monitoring")
    /\ getNestedValueConst(cmLast.out, <<"modules", FS, "watchdog">>) = ModuleWatchdog
    /\ getNestedValueConst(cmLast.out, <<"modules", FS, "priority">>)
          = getNestedValueConst(cmLast.doc, <<"modules", FS, "priority">>)
    /\ Member(cmLast.out, "backup_settings") = Member(cmLast.doc, "backup_settings")

\* C21: the migration of a document that validation accepts and whose version
\* is below the current one gives a document with "backup_settings",
\* "monitoring", system.watchdog.timeout_ms = 10000 and, in every module, a
\* watchdog block with enabled = true
C21_MigrationAddsSections ==
    (/\ cmLast.op = "migrate"
     /\ validateConfiguration(cmLast.doc) = CONFIG_VALID
     /\ BelowCurrent(cmLast.doc)) =>
        /\ containsKey(cmLast.out, "backup_settings")
        /\ containsKey(cmLast.out, "monitoring")
        /\ getNestedValueConst(cmLast.out, <<"system", "watchdog", "timeout_ms">>)
              = JsonInt(10000)
        /\ \A name \in DOMAIN Member(cmLast.out, "modules").v :
              getNestedValueConst(cmLast.out, <<"modules", name, "watchdog", "enabled">>)
                  = JsonBool(TRUE)

\* the snapshot a backup file holds: its "config", or the whole document of a
\* file in the old format
snapshotOf(file) ==
    LET f == loadConfigFromFile(file)
    IN  IF containsKey(f.doc, "config") THEN f.doc.v["config"] ELSE f.doc

\* C22: restoreFromBackup replaces the current document only by the snapshot
\* of a backup file that loads and whose snapshot passes validation; when it
\* returns failure the current document and the current version are as they
\* were
C22_RestoreOnlyValid ==
    [][cmLast'.op = "restore" =>
          /\ ~cmLast'.ret =>
                currentConfig' = currentConfig /\ currentVersion' = currentVersion
          /\ cmLast'.ret =>
                /\ \E name \in DOMAIN backupDir :
                      /\ loadConfigFromFile(backupDir[name]).ret
                      /\ currentConfig' = snapshotOf(backupDir[name])
                /\ validateConfiguration(currentConfig') = CONFIG_VALID
                /\ currentVersion' = getConfigVersion(currentConfig')
          /\ currentConfig' # currentConfig => cmLast'.ret]_vars

\* a backup of the empty document was restored by an engine that holds a
\* complete document: the snapshot failed validation and the document stayed
C22_Witness ==
    /\ cmLast.op = "restore"
    /\ ~cmLast.ret
    /\ cmLast.result = CONFIG_INVALID_SCHEMA
    /\ cmLast.doc = EmptyDoc
    /\ currentConfig = FullDoc("2.0.0")

\* C23: listBackups marks a record valid exactly when its file parses and has
\* the backup metadata
C23_UnparsableListedInvalid ==
    \A rec \in listBackups(backupDir) :
        rec.valid <=>
            /\ loadConfigFromFile(backupDir[rec.filename]).ret
            /\ containsKey(loadConfigFromFile(backupDir[rec.filename]).doc, "backup_info")

\* the part of the path that exists in doc leads through objects only
ObjectPrefix(doc, path) ==
    /\ path # <<>>
    /\ \A n \in 0..(Len(path) - 1) :
          walk(doc, SubSeq(path, 1, n)).found => isObject(walk(doc, SubSeq(path, 1, n)).value)

\* neither path is the beginning of the other
Apart(p, q) ==
    /\ p # <<>> /\ q # <<>>
    /\ \E n \in 1..Len(p) : n <= Len(q) /\ p[n] # q[n]

\* C24: setConfigValue on a path whose existing part leads through objects
\* only returns success, a following getConfigValue of the path gives the
\* value, and the values at the paths apart from it are as they were; on a
\* path through a value that is no object it returns failure
C24_SetCreatesIntermediates ==
    [][cmLast'.op = "set" =>
          LET path == cmLast'.doc.path
              value == cmLast'.doc.value
          IN  IF ObjectPrefix(currentConfig, path)
              THEN /\ cmLast'.ret
                   /\ getConfigValue(currentConfig', path) = [ret |-> TRUE, value |-> value]
                   /\ \A q \in ValuePaths :
                         Apart(path, q) =>
                            getConfigValue(currentConfig', q) = getConfigValue(currentConfig, q)
              ELSE ~cmLast'.ret]_vars

\* C25: a send on a full queue whose timeout elapses returns failure and
\* leaves the queue as it was; no queue ever holds more envelopes than its
\* length; and an envelope is dropped only by an operation that returns
\* failure to its caller
C25_FullSendFailsNoSilentDrop ==
    [][/\ (/\ busLast'.op = "send"
           /\ Len(msgQueues[LCD].items) >= msgQueues[LCD].length)
          => (busLast'.ret = "false" /\ msgQueues' = msgQueues)
       /\ \A q \in QueueOwners : Len(msgQueues'[q].items) <= msgQueues'[q].length
       /\ \A id \in MsgIds :
             (heap[id].state # "lost" /\ heap'[id].state = "lost")
                => busLast'.ret = "false"]_vars

\* what a queue has delivered followed by what it still holds
Delivery(q) == received[q] \o msgQueues[q].items

\* C26: the envelopes one sender put on a queue are received in the order
\* their sends completed (the envelopes are numbered in that order), and every
\* envelope put on a queue and not yet received is still in it
C26_FifoPerSender ==
    \A q \in QueueOwners :
        /\ \A i, j \in 1..Len(Delivery(q)) :
              (i < j /\ heap[Delivery(q)[i]].fromQueue = heap[Delivery(q)[j]].fromQueue)
                 => Delivery(q)[i] < Delivery(q)[j]
        /\ \A id \in MsgIds :
              (heap[id].state = "queued" /\ heap[id].toQueue = q)
                 => \E i \in 1..Len(msgQueues[q].items) : msgQueues[q].items[i] = id

\* CONTROL_LCD received an envelope of CONTROL_RADAR, one of CONTROL_FS and a
\* later one of CONTROL_RADAR, in the order they were sent
C26_Witness ==
    /\ Len(received[LCD]) >= 3
    /\ heap[received[LCD][1]].fromQueue = RADAR
    /\ heap[received[LCD][2]].fromQueue = FS
    /\ heap[received[LCD][3]].fromQueue = RADAR
    /\ received[LCD][1] < received[LCD][3]
    /\ heap[received[LCD][1]].callVariables # heap[received[LCD][3]].callVariables

\* C27: every envelope that was allocated is in a queue or has been released
C27_NoEnvelopeLeaked ==
    \A id \in MsgIds : heap[id].state \in {"free", "queued", "released"}

\* the envelope the requester is to find on its queue
Answer(S, R, request) ==
    [state |-> "queued", toQueue |-> S, fromQueue |-> R,
     eventType |-> EVENT_PROCESS_DONE, callType |-> CALL_FUNCTION_ASYNC,
     callName |-> "RECEIVE_RETURN_CALL_FUNC",
     callVariables |-> JsonObject([v |-> JsonArray(<<JsonString("RESULT"),
                                    Member(request.callVariables, "v")>>)])]

\* the queues once the responder has taken the request from its own
Taken(R) == [msgQueues EXCEPT ![R].items = Tail(@)]

\* one new envelope, the answer, is at the back of the queue of S
Answered(S, R, request) ==
    \E rid \in MsgIds :
        /\ heap[rid].state = "free"
        /\ heap'[rid] = Answer(S, R, request)
        /\ msgQueues' = [Taken(R) EXCEPT ![S].items = Append(@, rid)]

\* no envelope is put on any queue
NothingEnqueued(R) ==
    /\ msgQueues' = Taken(R)
    /\ \A id \in MsgIds : heap'[id].state = "queued" => heap[id].state = "queued"

C29_FedTasksNoTimeout ==
    (wd.reset = "on_system_timeout" /\ wd.subscribed # {})
       => \E t \in wd.subscribed : wd.sinceReset[t] >= SystemTimeout

\* C30: once a subscribed task has stopped feeding while the system watchdog is
\* started, and it stays subscribed and the watchdog started, onSystemTimeout
\* runs and asks for the restart
C30_StarvedTaskTimeout ==
    \A t \in WdTasks :
        (wd.timerActive /\ t \in wd.subscribed /\ t \in wd.stalled)
           ~> \/ wd.reset = "on_system_timeout"
              \/ ~wd.timerActive
              \/ t \notin wd.subscribed

\* C31: in updateModules with CONTROL_WIFI and CONTROL_WEB registered, when the
\* connected flag went from true to false the web server is stopped and the
\* task of CONTROL_WEB suspended; when it went from false to true start() is
\* called on CONTROL_WEB unless its server runs already, the server runs when
\* start() succeeded, and its task is resumed; when the flag is as it was the
\* module CONTROL_WEB and every task are as they were
C31_WifiEdgeDrivesWeb ==
    [][last'.op = "update" =>
          LET wifi == getModule(modules, objs, WIFI)
              web == getModule(modules, objs, WEB)
              connected == objs[wifi].isConnected
          IN  (wifi # nullptr /\ web # nullptr) =>
                 /\ wifiConnectedLast' = connected
                 /\ (connected = wifiConnectedLast) =>
                        /\ objs'[web] = objs[web]
                        /\ tasks' = tasks
                        /\ last'.calls = <<>> /\ last'.stopped = {}
                 /\ (wifiConnectedLast /\ ~connected) =>
                        /\ ~objs'[web].serverRunning
                        /\ objs[web].serverRunning =>
                               (web \in last'.stopped
                                /\ objs'[web].state = MODULE_DISABLED)
                        /\ objs[web].taskBase => tasks'[web] = "suspended"
                 /\ (~wifiConnectedLast /\ connected) =>
                        /\ ~objs[web].serverRunning => last'.calls = <<web>>
                        /\ web \notin last'.failed => objs'[web].serverRunning
                        /\ objs[web].taskBase => tasks'[web] = "ready"]_vars

\* the connection was lost: updateModules stopped the running web server and
\* suspended the task of CONTROL_WEB
C31_Witness ==
    /\ last.op = "update"
    /\ ~wifiConnectedLast
    /\ \E web \in ObjIds :
          /\ objs[web].cls = WEB
          /\ web \in last.stopped
          /\ objs[web].taskBase
          /\ tasks[web] = "suspended"
          /\ ~objs[web].serverRunning

\* the tasks that are inside a SPIFFS operation, and those that are drawing
InFilesystem == {t \in Tasks : At(t).k = "io"}
Drawing == {t \in Tasks : At(t).k = "draw"}

\* C32: at most one task at a time is inside a filesystem operation
C32_FilesystemExclusive ==
    Cardinality(InFilesystem) <= 1

\* C33: the display is drawn on only from the update() of CONTROL_LCD, and by
\* one task at a time
C33_DisplayOnlyFromUpdate ==
    /\ \A t \in Drawing : Top(t).fn = "lcdUpdate"
    /\ Cardinality(Drawing) <= 1

\* C37: a task that called readFile, writeFile, deleteFile or createDirectory
\* returns from it
C37_FsOperationsReturn ==
    \A t \in Workers :
        (stacks[t] # <<>> /\ stacks[t][1].fn \in FsOperations) ~> (stacks[t] = <<>>)

\* the module has the settings the configuration gives it
Configured(m, doc) ==
    LET c == moduleLoadConfig(m, doc)
    IN  /\ c.priority = m.priority
        /\ c.autoStart = m.autoStart
        /\ c.critical = m.critical
        /\ c.useTask = m.useTask
        /\ c.useQueue = m.useQueue

\* C34: every module whose init() initModules called has the priority, the
\* autostart and critical flags and the task and queue settings of the stored
\* global configuration
C34_ConfigLoadedBeforeInit ==
    [][last'.op = "init" =>
          \A i \in 1..Len(last'.calls) :
              Configured(objs'[last'.calls[i]], globalConfig)]_vars

\* C35: after a load that returned success the version in the current document
\* and the current version of the engine are both CONFIG_VERSION_CURRENT
C35_LoadedVersionCurrent ==
    [][(cmLast'.op = "load" /\ cmLast'.ret) =>
          /\ getConfigVersion(currentConfig') = CONFIG_VERSION_CURRENT
          /\ currentVersion' = CONFIG_VERSION_CURRENT]_vars

\* the update() of each module, and the tasks that are inside it
UpdateOf(m) == IF m = LCD THEN "lcdUpdate" ELSE "fsUpdate"
InUpdate(m) ==
    {t \in Tasks : \E i \in 1..Len(stacks[t]) : stacks[t][i].fn = UpdateOf(m)}

\* C38: at most one task at a time is inside the update() of a module
C38_OneUpdateAtATime ==
    \A m \in {FS, LCD} : Cardinality(InUpdate(m)) <= 1

\* C39: no task is inside the update() of a module that is not enabled
C39_NoUpdateWhenStopped ==
    \A m \in {FS, LCD} : modState[m] # MODULE_ENABLED => InUpdate(m) = {}

\* C40: a call of a function that is not registered under the module and the
\* function name returns failure and invokes neither a closure nor the
\* module's dispatch by name
C40_MissInvokesNothing ==
    (fnLast.op = "call" /\ ~fnLast.registered) =>
        (~fnLast.ret /\ fnLast.invoked = "none")

\* C36: an update() that has reached its send returns: the envelope it holds
\* is eventually queued or the send has failed
C36_UpdateReturns ==
    \A id \in MsgIds : (heap[id].state = "sender") ~> (heap[id].state # "sender")

====
